---- MODULE Spec2Model ----
(***************************************************************************)
(* Health-data analytics core of abrenCare (backend/health_data).          *)
(*                                                                         *)
(* The store is the set of Django tables the engine reads and writes:      *)
(* heart_rate_readings, sleep_sessions, activities, daily_summaries,       *)
(* health_insights and health_alerts.  A table is a sequence of rows, a    *)
(* row's primary key is its index.  Workers run                            *)
(* HealthDataService.process_recent_data stage by stage, and the other     *)
(* entry points (generate_daily_insights, generate_health_alerts,          *)
(* _update_daily_summary, HealthMetricsView.get,                           *)
(* HeartRateProcessor.detect_anomalies) as single steps.                   *)
(*                                                                         *)
(* Numbers: bpm, steps, minutes are integers.  Python floats are exact     *)
(* rationals <<p, q>> (q > 0, lowest terms).  A nullable column is <<>>    *)
(* for NULL and <<v>> for a value.  Timestamps are minutes; a date is      *)
(* ts \div 1440.                                                           *)
(***************************************************************************)
EXTENDS Integers, Sequences, FiniteSets, TLC

(***************************************************************************)
(* Bounds of the model                                                     *)
(***************************************************************************)
MaxRuns == 2          \* process_recent_data runs a worker may start
MaxCalls == 2         \* stand-alone entry-point calls a worker may make
MaxDetect == 2        \* detect_anomalies calls on one window
MaxFailures == 1      \* records of one batch whose processing raises
MaxMLFlagged == 1     \* readings one isolation-forest fit predicts as outliers
MaxSelected == 2      \* alerts the admin selects for one escalation
MaxReports == 2       \* trend analyses requested in one session

(***************************************************************************)
(* Program constants                                                       *)
(***************************************************************************)
DayMinutes == 1440
Days == 1             \* process_recent_data(days=1)
StepGoal == 10000
MinMLReadings == 50   \* detect_heart_rate_anomalies needs 50 readings
MinDetectReadings == 10
MinPatternReadings == 20
MinHrvReadings == 30
PatternWindow == 10
GroupThreshold == 30
TrendDays == 30
HrTrendDays == 7

(***************************************************************************)
(* Values                                                                  *)
(***************************************************************************)
None == <<>>
Some(v) == <<v>>
IsNone(x) == x = <<>>
Val(x) == x[1]

Abs(x) == IF x < 0 THEN -x ELSE x
Min2(a, b) == IF a < b THEN a ELSE b
Max2(a, b) == IF a > b THEN a ELSE b

RECURSIVE Gcd(_, _)
Gcd(a, b) == IF b = 0 THEN a ELSE Gcd(b, a % b)

\* the rational p/q in lowest terms with a positive denominator (q # 0)
Rat(p, q) ==
    LET s == IF q < 0 THEN -1 ELSE 1
        g == Gcd(Abs(p), Abs(q))
    IN  IF p = 0 THEN <<0, 1>> ELSE <<(s * p) \div g, (s * q) \div g>>
RInt(n) == <<n, 1>>
RLt(a, b) == a[1] * b[2] < b[1] * a[2]
RLe(a, b) == a[1] * b[2] <= b[1] * a[2]
RAdd(a, b) == Rat(a[1] * b[2] + b[1] * a[2], a[2] * b[2])
RMul(a, b) == Rat(a[1] * b[1], a[2] * b[2])
RMin(a, b) == IF RLt(b, a) THEN b ELSE a
RSub(a, b) == Rat(a[1] * b[2] - b[1] * a[2], a[2] * b[2])
RDiv(a, b) == Rat(a[1] * b[2], a[2] * b[1])

\* Python truthiness of a nullable number: None and 0 are false
TruthyInt(x) == x # None /\ Val(x) # 0
TruthyRat(x) == x # None /\ Val(x)[1] # 0

\* round(p/q, 1) as a rational: round half to even on the exact value
RoundHalfEven(p, q) ==
    LET f == p \div q
        r == p - f * q
    IN  IF 2 * r < q THEN f
        ELSE IF 2 * r > q THEN f + 1
        ELSE IF f % 2 = 0 THEN f ELSE f + 1
Round1(x) == Rat(RoundHalfEven(10 * x[1], x[2]), 10)
\* round(x, d) for 10^d = k
RoundTo(x, k) == Rat(RoundHalfEven(k * x[1], x[2]), k)

RECURSIVE SumSeq(_)
SumSeq(s) == IF s = <<>> THEN 0 ELSE Head(s) + SumSeq(Tail(s))

RECURSIVE SetToSeq(_)
\* the elements of a finite set of integers in increasing order
SetToSeq(S) ==
    IF S = {} THEN <<>>
    ELSE LET m == CHOOSE x \in S : \A y \in S : x <= y
         IN  <<m>> \o SetToSeq(S \ {m})

DateOf(ts) == ts \div DayMinutes

(***************************************************************************)
(* State                                                                   *)
(***************************************************************************)
VARIABLES
    now,        \* timezone.now() of the session, in minutes
    mlayer,     \* the outlier layer (scikit-learn) in this deployment: "ok",
                \* "broken" (detect_heart_rate_anomalies raises) or "absent"
                \* (the package cannot be imported)
    forest,     \* user -> the readings the fitted isolation forest predicts -1
    hr,         \* table heart_rate_readings
    sleep,      \* table sleep_sessions
    act,        \* table activities
    summaries,  \* table daily_summaries
    insights,   \* table health_insights
    alerts,     \* table health_alerts
    wuser,      \* worker -> the user its HealthDataService was built for
    pc,         \* worker -> stage of process_recent_data ("idle" between runs)
    results,    \* worker -> the results dict of its current or last run
    runs,       \* worker -> runs of process_recent_data started
    calls,      \* worker -> stand-alone entry-point calls made
    log,        \* history: one entry per batch loop, stage or entry point
                \* completed
    detected,   \* the lists detect_anomalies has returned, in call order
    reports,    \* the dicts the trend analyses have returned, in call order
    saves,      \* the SleepSession.save calls on new instances, in call order
    fetched,    \* worker -> the rows its batch loop iterates over, by primary key
    goals       \* table health_goals

vars == <<now, mlayer, forest, hr, sleep, act, summaries, insights, alerts, wuser, pc, results,
          runs, calls, log, detected, reports, saves, fetched, goals>>

Users == {"A", "B", "C", "D"}
\* service instances: w1, w2 run concurrently; s1, s2 run one after the other
Workers == {"w1", "w2", "s1", "s2"}

(***************************************************************************)
(* Rows.  models.py                                                        *)
(***************************************************************************)
HeartRateReading(u, bpm, ctx, ts) ==
    [user |-> u, bpm |-> bpm, context |-> ctx, ts |-> ts,
     processed |-> FALSE, is_anomaly |-> FALSE, anomaly_type |-> ""]

\* SleepSession.total_sleep_minutes
total_sleep_minutes(s) == s.light + s.deep + s.rem

\* SleepSession.save: derives duration, efficiency and quality category
SleepSessionSave(s) ==
    LET d == IF s.duration = 0 /\ s.ts # 0 /\ s.end # 0
                THEN s.end - s.ts ELSE s.duration
        total == s.awake + s.light + s.deep + s.rem
        eff == IF ~TruthyRat(s.efficiency) /\ d > 0 /\ total > 0
                  THEN Some(Rat(total * 100, d)) ELSE s.efficiency
        cat == IF TruthyRat(s.quality) /\ s.category = ""
                  THEN IF RLe(RInt(85), Val(s.quality)) THEN "excellent"
                       ELSE IF RLe(RInt(70), Val(s.quality)) THEN "good"
                       ELSE IF RLe(RInt(50), Val(s.quality)) THEN "fair"
                       ELSE "poor"
                  ELSE s.category
    IN  [s EXCEPT !.duration = d, !.efficiency = eff, !.category = cat]

SleepSession(u, ts, dur, awake, light, deep, rem, intr, q) ==
    SleepSessionSave(
        [user |-> u, ts |-> ts, end |-> ts + dur, duration |-> dur,
         awake |-> awake, light |-> light, deep |-> deep, rem |-> rem,
         interruptions |-> intr, quality |-> q, category |-> "",
         efficiency |-> None, restless |-> FALSE, processed |-> FALSE])

Activity(u, ts, type, intensity, dur, cal, steps, avg) ==
    [user |-> u, ts |-> ts, type |-> type, intensity |-> intensity,
     duration |-> dur, calories |-> cal, steps |-> steps, avg_hr |-> avg,
     recovery |-> None, processed |-> FALSE]

\* a DailySummary row with the model's column defaults
DailySummary(u, d) ==
    [user |-> u, date |-> d, total_steps |-> 0, total_calories |-> 0,
     avg_hr |-> None, min_hr |-> None, max_hr |-> None, resting_hr |-> None,
     hrv |-> None, sleep_duration |-> None, sleep_score |-> None,
     sleep_efficiency |-> None, recovery_score |-> None,
     overall_score |-> None, is_complete |-> FALSE]

(***************************************************************************)
(* Queries                                                                 *)
(***************************************************************************)
Ids(t) == DOMAIN t
\* rows of table t owned by user u
Of(t, u) == {i \in Ids(t) : t[i].user = u}
OnDate(t, u, d) == {i \in Of(t, u) : DateOf(t[i].ts) = d}
\* timestamp__range=[end - days, end]
InWindow(t, u, lo, hi) == {i \in Of(t, u) : lo <= t[i].ts /\ t[i].ts <= hi}
Today == DateOf(now)

\* ordering = ['-start_time'] then .first(): the latest row, ties by key
FirstLatest(t, S) ==
    CHOOSE i \in S : \A j \in S : t[j].ts < t[i].ts \/ (t[j].ts = t[i].ts /\ i <= j)

\* a variant of the lookup that never finds a row
NoSummaryIds(u, d) == {}

SummaryIds(u, d) == {i \in Ids(summaries) : summaries[i].user = u /\ summaries[i].date = d}
\* .filter(user, date).first() under ordering ['-date']: the first row found
FirstSummary(u, d) == CHOOSE i \in SummaryIds(u, d) : \A j \in SummaryIds(u, d) : i <= j

(***************************************************************************)
(* sleep_processor.py                                                      *)
(***************************************************************************)
\* SleepSession.deep_sleep_percentage / rem_sleep_percentage
deep_sleep_percentage(s) ==
    IF total_sleep_minutes(s) > 0 THEN Rat(s.deep * 100, total_sleep_minutes(s)) ELSE RInt(0)
rem_sleep_percentage(s) ==
    IF total_sleep_minutes(s) > 0 THEN Rat(s.rem * 100, total_sleep_minutes(s)) ELSE RInt(0)

\* a variant of the table with the two outer bands exchanged
BandScoreSwapped(x, lo, hi) ==
    IF RLe(RInt(lo), x) /\ RLe(x, RInt(hi)) THEN 100
    ELSE IF (RLe(RInt(lo - 5), x) /\ RLt(x, RInt(lo))) \/ (RLt(RInt(hi), x) /\ RLe(x, RInt(hi + 5))) THEN 40
    ELSE IF (RLe(RInt(lo - 10), x) /\ RLt(x, RInt(lo - 5))) \/ (RLt(RInt(hi + 5), x) /\ RLe(x, RInt(hi + 10))) THEN 70
    ELSE 20

\* the piecewise table shared by the deep-sleep and REM factors
BandScore(x, lo, hi) ==
    IF RLe(RInt(lo), x) /\ RLe(x, RInt(hi)) THEN 100
    ELSE IF (RLe(RInt(lo - 5), x) /\ RLt(x, RInt(lo))) \/ (RLt(RInt(hi), x) /\ RLe(x, RInt(hi + 5))) THEN 70
    ELSE IF (RLe(RInt(lo - 10), x) /\ RLt(x, RInt(lo - 5))) \/ (RLt(RInt(hi + 5), x) /\ RLe(x, RInt(hi + 10))) THEN 40
    ELSE 20

\* a variant of the score that takes the efficiency as a fraction of 1
SleepScoreEfficiencyAsFraction(s) ==
    LET m == s.duration
        duration == IF 420 <= m /\ m <= 540 THEN 100
                    ELSE IF (360 <= m /\ m < 420) \/ (540 < m /\ m <= 600) THEN 70
                    ELSE IF (300 <= m /\ m < 360) \/ (600 < m /\ m <= 660) THEN 40
                    ELSE 20
        eff == IF TruthyRat(s.efficiency) THEN RDiv(Val(s.efficiency), RInt(100))
               ELSE IF m > 0 THEN Rat(total_sleep_minutes(s), m) ELSE RInt(0)
        efficiency == IF RLe(RInt(90), eff) THEN 100
                      ELSE IF RLe(RInt(85), eff) THEN 85
                      ELSE IF RLe(RInt(75), eff) THEN 60
                      ELSE 30
        deep == BandScore(deep_sleep_percentage(s), 15, 25)
        rem == BandScore(rem_sleep_percentage(s), 20, 25)
        intr == IF s.interruptions <= 2 THEN 100
                ELSE IF s.interruptions <= 5 THEN 70
                ELSE IF s.interruptions <= 10 THEN 40
                ELSE 10
    IN  Round1(Rat(30 * duration + 25 * efficiency + 20 * deep + 15 * rem + 10 * intr, 100))

\* SleepProcessor._calculate_sleep_score
CalculateSleepScore(s) ==
    LET m == s.duration
        duration == IF 420 <= m /\ m <= 540 THEN 100
                    ELSE IF (360 <= m /\ m < 420) \/ (540 < m /\ m <= 600) THEN 70
                    ELSE IF (300 <= m /\ m < 360) \/ (600 < m /\ m <= 660) THEN 40
                    ELSE 20
        eff == IF TruthyRat(s.efficiency) THEN Val(s.efficiency)
               ELSE IF m > 0 THEN Rat(total_sleep_minutes(s) * 100, m) ELSE RInt(0)
        efficiency == IF RLe(RInt(90), eff) THEN 100
                      ELSE IF RLe(RInt(85), eff) THEN 85
                      ELSE IF RLe(RInt(75), eff) THEN 60
                      ELSE 30
        deep == BandScore(deep_sleep_percentage(s), 15, 25)
        rem == BandScore(rem_sleep_percentage(s), 20, 25)
        intr == IF s.interruptions <= 2 THEN 100
                ELSE IF s.interruptions <= 5 THEN 70
                ELSE IF s.interruptions <= 10 THEN 40
                ELSE 10
    IN  Round1(Rat(30 * duration + 25 * efficiency + 20 * deep + 15 * rem + 10 * intr, 100))

\* analysis['overall_score'] of SleepProcessor.analyze_sleep_session
AnalyzeSleepScore(s) ==
    IF TruthyRat(s.quality) THEN Val(s.quality) ELSE CalculateSleepScore(s)

(***************************************************************************)
(* activity_processor.py                                                   *)
(***************************************************************************)
\* estimated_recovery_hours of ActivityProcessor._analyze_recovery
EstimatedRecoveryHours(a) ==
    LET load == IF TruthyInt(a.avg_hr) /\ a.duration # 0
                   THEN a.duration * Val(a.avg_hr) ELSE a.duration * 120
    IN  IF load < 2000 THEN 12
        ELSE IF load < 4000 THEN 24
        ELSE IF load < 6000 THEN 36
        ELSE 48

(***************************************************************************)
(* health_analyzer.py: the daily score                                     *)
(***************************************************************************)
\* HealthAnalyzer._calculate_daily_health_score
CalculateDailyHealthScore(ds) ==
    LET steps == ds.total_steps
        activity == RMin(RInt(100), Rat(steps * 100, StepGoal))
        m == IF IsNone(ds.sleep_duration) THEN 0 ELSE Val(ds.sleep_duration)
        sleepS == IF TruthyRat(ds.sleep_score) THEN Val(ds.sleep_score)
                  ELSE IF TruthyInt(ds.sleep_duration)
                      THEN IF 420 <= m /\ m <= 540 THEN RInt(90)
                           ELSE IF (360 <= m /\ m < 420) \/ (540 < m /\ m <= 600) THEN RInt(70)
                           ELSE IF (300 <= m /\ m < 360) \/ (600 < m /\ m <= 660) THEN RInt(50)
                           ELSE RInt(30)
                  ELSE RInt(50)
        r == IF IsNone(ds.resting_hr) THEN 0 ELSE Val(ds.resting_hr)
        heart == IF TruthyInt(ds.resting_hr)
                    THEN IF r < 60 THEN RInt(90)
                         ELSE IF r < 70 THEN RInt(80)
                         ELSE IF r < 80 THEN RInt(70)
                         ELSE RInt(50)
                    ELSE RInt(70)
        recovery == IF TruthyRat(ds.recovery_score) THEN Val(ds.recovery_score) ELSE RInt(75)
        total == RAdd(RAdd(RMul(Rat(35, 100), activity), RMul(Rat(35, 100), sleepS)),
                      RAdd(RMul(Rat(20, 100), heart), RMul(Rat(10, 100), recovery)))
    IN  Round1(total)

(***************************************************************************)
(* health_analyzer.py: daily insights                                      *)
(***************************************************************************)
Insight(type, category, title) == [type |-> type, category |-> category, title |-> title]
When(c, x) == IF c THEN <<x>> ELSE <<>>

\* HealthAnalyzer._analyze_activity_insights
AnalyzeActivityInsights(ds, u, d) ==
    LET steps == ds.total_steps
    IN  (IF steps >= StepGoal
            THEN <<Insight("achievement", "activity", "Step Goal Achieved!")>>
         ELSE IF 10 * steps >= 8 * StepGoal
            THEN <<Insight("progress", "activity", "Close to Step Goal")>>
         ELSE IF 10 * steps < 5 * StepGoal
            THEN <<Insight("recommendation", "activity", "Increase Daily Activity")>>
         ELSE <<>>)
        \o When(OnDate(act, u, d) = {},
                Insight("recommendation", "activity", "Time for Movement"))

\* HealthAnalyzer._analyze_sleep_insights
AnalyzeSleepInsights(ds) ==
    LET m == IF IsNone(ds.sleep_duration) THEN 0 ELSE Val(ds.sleep_duration)
        q == IF IsNone(ds.sleep_score) THEN RInt(0) ELSE Val(ds.sleep_score)
    IN  (IF ~TruthyInt(ds.sleep_duration) THEN <<>>
         ELSE IF 420 <= m /\ m <= 540
            THEN <<Insight("achievement", "sleep", "Optimal Sleep Duration")>>
         ELSE IF m < 360
            THEN <<Insight("warning", "sleep", "Insufficient Sleep")>>
         ELSE IF m > 540
            THEN <<Insight("pattern", "sleep", "Extended Sleep Duration")>>
         ELSE <<>>)
        \o
        (IF ~TruthyRat(ds.sleep_score) THEN <<>>
         ELSE IF RLe(RInt(85), q)
            THEN <<Insight("achievement", "sleep", "Excellent Sleep Quality")>>
         ELSE IF RLt(q, RInt(60))
            THEN <<Insight("recommendation", "sleep", "Improve Sleep Quality")>>
         ELSE <<>>)

\* HealthAnalyzer._analyze_heart_rate_insights
AnalyzeHeartRateInsights(ds) ==
    LET a == IF IsNone(ds.avg_hr) THEN RInt(0) ELSE Val(ds.avg_hr)
        r == IF IsNone(ds.resting_hr) THEN 0 ELSE Val(ds.resting_hr)
        v == IF IsNone(ds.hrv) THEN RInt(0) ELSE Val(ds.hrv)
    IN  (IF ~TruthyRat(ds.avg_hr) THEN <<>>
         ELSE IF RLt(a, RInt(60))
            THEN <<Insight("pattern", "heart", "Low Average Heart Rate")>>
         ELSE IF RLt(RInt(100), a)
            THEN <<Insight("warning", "heart", "Elevated Average Heart Rate")>>
         ELSE <<>>)
        \o
        (IF ~TruthyInt(ds.resting_hr) THEN <<>>
         ELSE IF r < 60
            THEN <<Insight("achievement", "heart", "Excellent Resting Heart Rate")>>
         ELSE IF r > 80
            THEN <<Insight("recommendation", "heart", "Monitor Resting Heart Rate")>>
         ELSE <<>>)
        \o When(TruthyRat(ds.hrv) /\ RLt(v, RInt(20)),
                Insight("pattern", "heart", "Low Heart Rate Variability"))

\* the row HealthAnalyzer._analyze_overall_health_insights saves: the score is
\* written only when it is truthy
WithOverallScore(ds) ==
    LET score == CalculateDailyHealthScore(ds)
    IN  IF score[1] # 0 THEN [ds EXCEPT !.overall_score = Some(score)] ELSE ds

\* HealthAnalyzer._analyze_overall_health_insights: the insights it returns
AnalyzeOverallHealthInsights(ds) ==
    LET score == CalculateDailyHealthScore(ds)
    IN  (IF score[1] = 0 THEN <<>>
         ELSE IF RLe(RInt(80), score)
            THEN <<Insight("achievement", "overall", "Excellent Health Day")>>
         ELSE IF RLe(RInt(60), score)
            THEN <<Insight("progress", "overall", "Good Health Day")>>
         ELSE <<Insight("recommendation", "overall", "Room for Improvement")>>)
        \o When(~ds.is_complete, Insight("info", "overall", "Incomplete Data"))

\* HealthAnalyzer._generate_daily_recommendations
GenerateDailyRecommendations(ins) ==
    LET has(cat, types) == \E k \in DOMAIN ins : ins[k].category = cat /\ ins[k].type \in types
    IN  When(has("activity", {"recommendation"}),
             Insight("recommendation", "activity", "Daily Movement Goal"))
        \o When(has("sleep", {"warning", "recommendation"}),
                Insight("recommendation", "sleep", "Improve Sleep Tonight"))
        \o When(has("heart", {"warning"}),
                Insight("recommendation", "heart", "Heart Health Focus"))

\* the rows HealthAnalyzer._save_insights_to_database creates
RECURSIVE InsightRows(_, _, _)
InsightRows(ins, u, d) ==
    IF ins = <<>> THEN <<>>
    ELSE <<[user |-> u, date |-> d, type |-> Head(ins).type,
            category |-> Head(ins).category, title |-> Head(ins).title]>>
         \o InsightRows(Tail(ins), u, d)

(***************************************************************************)
(* Aggregates over querysets                                               *)
(***************************************************************************)
RECURSIVE SumOver(_, _)
\* the sum of f[i] over the finite set S
SumOver(S, f) ==
    IF S = {} THEN 0
    ELSE LET i == CHOOSE x \in S : TRUE IN f[i] + SumOver(S \ {i}, f)

SetMin(S) == CHOOSE x \in S : \A y \in S : x <= y
SetMax(S) == CHOOSE x \in S : \A y \in S : y <= x

\* Sum('steps'): NULLs are skipped, NULL when nothing is summed
SumSteps(S) ==
    LET K == {i \in S : ~IsNone(act[i].steps)}
        f == [i \in K |-> Val(act[i].steps)]
    IN  IF K = {} THEN None ELSE Some(SumOver(K, f))
SumCalories(S) ==
    LET f == [i \in S |-> act[i].calories]
    IN  IF S = {} THEN None ELSE Some(SumOver(S, f))
SumDuration(S) ==
    LET f == [i \in S |-> sleep[i].duration]
    IN  IF S = {} THEN None ELSE Some(SumOver(S, f))
AvgBpm(S) ==
    LET f == [i \in S |-> hr[i].bpm]
    IN  IF S = {} THEN None ELSE Some(Rat(SumOver(S, f), Cardinality(S)))
MinBpm(S) == IF S = {} THEN None ELSE Some(SetMin({hr[i].bpm : i \in S}))
MaxBpm(S) == IF S = {} THEN None ELSE Some(SetMax({hr[i].bpm : i \in S}))

RECURSIVE RSum(_, _)
RSum(S, f) ==
    IF S = {} THEN RInt(0)
    ELSE LET i == CHOOSE x \in S : TRUE IN RAdd(f[i], RSum(S \ {i}, f))
\* Avg('quality_score')
AvgQuality(S) ==
    LET K == {i \in S : ~IsNone(sleep[i].quality)}
        f == [i \in K |-> Val(sleep[i].quality)]
    IN  IF K = {} THEN None ELSE Some(RMul(RSum(K, f), Rat(1, Cardinality(K))))

OrZero(x) == IF IsNone(x) THEN 0 ELSE Val(x)

(***************************************************************************)
(* The daily summary                                                       *)
(***************************************************************************)
\* the row HealthAnalyzer._create_daily_summary creates
CreateDailySummaryRow(u, d) ==
    [DailySummary(u, d) EXCEPT
        !.total_steps = OrZero(SumSteps(OnDate(act, u, d))),
        !.total_calories = OrZero(SumCalories(OnDate(act, u, d))),
        !.avg_hr = AvgBpm(OnDate(hr, u, d)),
        !.min_hr = MinBpm(OnDate(hr, u, d)),
        !.max_hr = MaxBpm(OnDate(hr, u, d)),
        !.sleep_duration = SumDuration(OnDate(sleep, u, d)),
        !.sleep_score = AvgQuality(OnDate(sleep, u, d)),
        !.is_complete = FALSE]

\* a variant of the completeness test: any of the three is enough
HasAnyOfThree(u, d) ==
    OnDate(act, u, d) # {} \/ OnDate(sleep, u, d) # {} \/ OnDate(hr, u, d) # {}

\* has_activity and has_sleep and has_heart_rate
HasAllThree(u, d) ==
    OnDate(act, u, d) # {} /\ OnDate(sleep, u, d) # {} /\ OnDate(hr, u, d) # {}

\* is_complete as HealthDataService._update_daily_summary computes it
IsCompleteValue(u, d) == HasAllThree(u, d)

\* the row HealthDataService._update_daily_summary saves over row ds
UpdateDailySummaryRow(ds, u, d) ==
    LET A == OnDate(act, u, d)
        S == OnDate(sleep, u, d)
        H == OnDate(hr, u, d)
        R == {i \in H : hr[i].context \in {"rest", "sleep"}}
        s1 == IF A # {}
                 THEN [ds EXCEPT !.total_steps = OrZero(SumSteps(A)),
                                 !.total_calories = OrZero(SumCalories(A))]
                 ELSE ds
        s2 == IF S # {}
                 THEN LET st == sleep[FirstLatest(sleep, S)]
                      IN  [s1 EXCEPT !.sleep_duration = Some(st.duration),
                                     !.sleep_score = st.quality,
                                     !.sleep_efficiency = st.efficiency]
                 ELSE s1
        s3 == IF H # {}
                 THEN [s2 EXCEPT !.avg_hr = AvgBpm(H), !.min_hr = MinBpm(H),
                                 !.max_hr = MaxBpm(H),
                                 !.resting_hr = IF R # {} THEN MinBpm(R) ELSE @]
                 ELSE s2
    IN  [s3 EXCEPT !.is_complete = IsCompleteValue(u, d)]

(***************************************************************************)
(* health_analyzer.py: alert rules                                         *)
(***************************************************************************)
Alert(type, severity, title, related_model, related_id) ==
    [type |-> type, severity |-> severity, title |-> title,
     related_model |-> related_model, related_id |-> related_id]

RECURSIVE OrderDesc(_, _)
\* the rows S of table t under ordering ['-timestamp'], ties by key
OrderDesc(t, S) ==
    IF S = {} THEN <<>>
    ELSE LET i == FirstLatest(t, S) IN <<i>> \o OrderDesc(t, S \ {i})

RECURSIVE OrderAsc(_, _)
\* the rows S of table t under order_by('timestamp'), ties by key
OrderAsc(t, S) ==
    IF S = {} THEN <<>>
    ELSE LET i == CHOOSE x \in S : \A y \in S :
                      t[x].ts < t[y].ts \/ (t[x].ts = t[y].ts /\ x <= y)
         IN  <<i>> \o OrderAsc(t, S \ {i})

\* the anomaly_type values the engine writes that contain the word 'critical'
CriticalTypes == {}

\* HealthAnalyzer._check_recent_anomalies
CheckRecentAnomalies(u) ==
    LET S == {i \in Of(hr, u) : hr[i].ts >= now - DayMinutes /\ hr[i].is_anomaly}
        ids == OrderDesc(hr, S)
    IN  [k \in DOMAIN ids |->
            Alert(hr[ids[k]].anomaly_type,
                  IF hr[ids[k]].anomaly_type \in CriticalTypes THEN "high" ELSE "medium",
                  "Heart Rate Anomaly Detected", Some("HeartRateReading"), Some(ids[k]))]

\* HealthAnalyzer._check_inactivity
CheckInactivity(u) ==
    LET hour == (now % DayMinutes) \div 60
    IN  When(OnDate(act, u, Today) = {} /\ hour >= 15,
             Alert("inactivity", "low", "Inactive Day", None, None))
        \o When(\A k \in 0..2 : OnDate(act, u, Today - k) = {},
                Alert("prolonged_inactivity", "medium", "Multiple Inactive Days", None, None))

\* HealthAnalyzer._check_sleep_patterns
CheckSleepPatterns(u) ==
    LET S == OnDate(sleep, u, Today - 1)
    IN  IF S = {} THEN <<>>
        ELSE LET last == sleep[FirstLatest(sleep, S)]
             IN  When(last.duration < 360,
                      Alert("sleep_poor", "medium", "Short Sleep Duration", None, None))
                 \o When(TruthyRat(last.quality) /\ RLt(Val(last.quality), RInt(50)),
                         Alert("sleep_poor", "low", "Poor Sleep Quality", None, None))

\* HealthAnalyzer._check_heart_rate_issues
CheckHeartRateIssues(u) ==
    LET S == {i \in OnDate(hr, u, Today) : hr[i].context = "rest"}
    IN  When(S # {} /\ TruthyRat(AvgBpm(S)) /\ RLt(RInt(85), Val(AvgBpm(S))),
             Alert("heart_rate_high", "medium", "Elevated Resting Heart Rate", None, None))

\* the list HealthAnalyzer.generate_health_alerts builds from its four rules
RuleAlerts(u) ==
    CheckRecentAnomalies(u) \o CheckInactivity(u) \o CheckSleepPatterns(u)
        \o CheckHeartRateIssues(u)

\* HealthAlert.related_model is a CharField without null=True: creating a row
\* with related_model=None raises (NOT NULL constraint)
CreateRaises(a) == IsNone(a.related_model)

RECURSIVE SavedPrefix(_)
\* the alerts HealthAnalyzer._save_alerts_to_database creates before it raises
SavedPrefix(as) ==
    IF as = <<>> \/ CreateRaises(Head(as)) THEN <<>>
    ELSE <<Head(as)>> \o SavedPrefix(Tail(as))

SaveAlertsRaises(as) == \E k \in DOMAIN as : CreateRaises(as[k])

AlertRows(as, u) ==
    [k \in DOMAIN as |->
        [user |-> u, type |-> as[k].type, severity |-> as[k].severity,
         title |-> as[k].title, related_id |-> as[k].related_id]]

(***************************************************************************)
(* anomaly_detector.py                                                     *)
(***************************************************************************)
RECURSIVE SubsetsUpTo(_, _)
\* the subsets of S with at most k elements
SubsetsUpTo(S, k) ==
    IF k = 0 THEN {{}}
    ELSE LET P == SubsetsUpTo(S, k - 1) IN P \cup {T \cup {i} : T \in P, i \in S}

\* The readings IsolationForest.fit_predict marks -1 in window W of user u.
\* The forest is seeded (random_state=42) and its features are bpm, context and
\* timestamp, so one window always gets the same predictions: forest[u].
\* Fewer than 50 readings: detect_heart_rate_anomalies returns [] before fitting.
MLPredictions(u, W) ==
    IF Cardinality(W) < MinMLReadings THEN {} ELSE forest[u] \cap W

\* AnomalyDetector._update_heart_rate_anomalies: rows fetched by primary key
UpdateHeartRateAnomalies(t, S) ==
    [i \in DOMAIN t |->
        IF i \in S THEN [t[i] EXCEPT !.is_anomaly = TRUE, !.anomaly_type = "ml_detected"]
        ELSE t[i]]

RECURSIVE GroupFromFirst(_, _, _, _)
\* a variant of the loop that measures the gap from the first anomaly of the
\* current group
GroupFromFirst(t, ids, cur, done) ==
    IF ids = <<>> THEN (IF cur = <<>> THEN done ELSE Append(done, cur))
    ELSE IF cur = <<>> THEN GroupFromFirst(t, Tail(ids), <<Head(ids)>>, done)
    ELSE IF t[Head(ids)].ts - t[cur[1]].ts <= GroupThreshold
        THEN GroupFromFirst(t, Tail(ids), Append(cur, Head(ids)), done)
    ELSE GroupFromFirst(t, Tail(ids), <<Head(ids)>>, Append(done, cur))

RECURSIVE GroupFrom(_, _, _, _)
\* the loop of AnomalyDetector._group_anomalies over ids (sorted by timestamp):
\* cur is current_group, done the groups finalized so far
GroupFrom(t, ids, cur, done) ==
    IF ids = <<>> THEN (IF cur = <<>> THEN done ELSE Append(done, cur))
    ELSE IF cur = <<>> THEN GroupFrom(t, Tail(ids), <<Head(ids)>>, done)
    ELSE IF t[Head(ids)].ts - t[cur[Len(cur)]].ts <= GroupThreshold
        THEN GroupFrom(t, Tail(ids), Append(cur, Head(ids)), done)
    ELSE GroupFrom(t, Tail(ids), <<Head(ids)>>, Append(done, cur))

\* AnomalyDetector._create_anomaly_group (the forest's scores are not modelled)
CreateAnomalyGroup(t, g) ==
    LET B == [k \in DOMAIN g |-> t[g[k]].bpm]
        avg == Rat(SumSeq(B), Len(g))
    IN  [group_type |-> IF RLt(RInt(120), avg) THEN "sustained_high_heart_rate"
                        ELSE IF RLt(avg, RInt(50)) THEN "sustained_low_heart_rate"
                        ELSE "irregular_heart_rate_pattern",
         severity |-> IF RLt(RInt(120), avg) THEN "high"
                      ELSE IF RLt(avg, RInt(50)) THEN "medium" ELSE "low",
         start_time |-> t[g[1]].ts, end_time |-> t[g[Len(g)]].ts,
         anomaly_count |-> Len(g), members |-> g]

\* AnomalyDetector._group_anomalies
GroupAnomalies(t, S) ==
    LET groups == GroupFrom(t, OrderAsc(t, S), <<>>, <<>>)
    IN  [k \in DOMAIN groups |-> CreateAnomalyGroup(t, groups[k])]

(***************************************************************************)
(* services.py: HealthDataService.process_recent_data, stage by stage      *)
(***************************************************************************)
EmptyResults ==
    [processed |-> [heart_rate |-> 0, sleep |-> 0, activity |-> 0],
     insights |-> <<>>, alerts |-> <<>>, anomalies |-> <<>>, error |-> FALSE]

WindowStart == now - Days * DayMinutes

\* the three batch loops, by the key of their count in results['processed']
BatchOps == {"heart_rate", "sleep", "activity"}

\* a variant of the heart-rate queryset that forgets processed_at__isnull
ReadingsOfWindow(u) == InWindow(hr, u, WindowStart, now)

\* a variant of the heart-rate queryset that forgets the user filter
UnprocessedOfAnyUser(u) ==
    {i \in DOMAIN hr : WindowStart <= hr[i].ts /\ hr[i].ts <= now /\ ~hr[i].processed}

\* the queryset of each batch loop: this user's rows of the window with
\* processed_at NULL
UnprocessedReadings(u) == {i \in InWindow(hr, u, WindowStart, now) : ~hr[i].processed}
UnprocessedSessions(u) == {i \in InWindow(sleep, u, WindowStart, now) : ~sleep[i].processed}
UnprocessedActivities(u) == {i \in InWindow(act, u, WindowStart, now) : ~act[i].processed}

\* a variant of the loops in which the first exception ends the batch
NoneAfterFailure(batch, F) == IF F = {} THEN batch ELSE {}

\* try ... except Exception: continue -- the records of the batch a loop
\* processes and counts when the processing of those in F raises
Survivors(batch, F) == batch \ F

\* the body of the heart-rate loop for one reading, up to reading.save()
ProcessReading(r) ==
    IF r.bpm > 120 /\ r.context = "rest"
        THEN [r EXCEPT !.processed = TRUE, !.is_anomaly = TRUE, !.anomaly_type = "high_resting_hr"]
    ELSE IF r.bpm < 50 /\ r.context \notin {"sleep", "rest"}
        THEN [r EXCEPT !.processed = TRUE, !.is_anomaly = TRUE, !.anomaly_type = "low_hr"]
    ELSE [r EXCEPT !.processed = TRUE]

\* the entries the heart-rate loop appends to its anomalies list
RuleAnomalies(t, ids) ==
    LET flagged == SelectSeq(ids, LAMBDA i :
                       (t[i].bpm > 120 /\ t[i].context = "rest")
                       \/ (t[i].bpm < 50 /\ t[i].context \notin {"sleep", "rest"}))
    IN  [k \in DOMAIN flagged |->
            [reading_id |-> flagged[k], bpm |-> t[flagged[k]].bpm,
             type |-> ProcessReading(t[flagged[k]]).anomaly_type]]

\* the body of the sleep loop for one session, up to session.save()
ProcessSession(s) ==
    SleepSessionSave(
        [s EXCEPT !.quality = Some(AnalyzeSleepScore(s)),
                  !.restless = IF s.awake > 60 \/ s.interruptions > 10 THEN TRUE ELSE @,
                  !.processed = TRUE])

\* the body of the activity loop for one activity, up to activity.save()
ProcessActivity(a) ==
    [a EXCEPT !.recovery = Some(EstimatedRecoveryHours(a) * 60), !.processed = TRUE]

\* the other services that are in the middle of a run
Running(w) == {v \in Workers \ {w} : pc[v] # "idle"}

\* the dict a batch loop returns
BatchReturn(n) == [processed |-> n, time_range |-> <<WindowStart, now>>]

StartRun(w) ==
    /\ pc[w] = "idle"
    /\ mlayer # "absent"
    /\ runs[w] < MaxRuns
    /\ pc' = [pc EXCEPT ![w] = "heart_rate"]
    /\ runs' = [runs EXCEPT ![w] = @ + 1]
    /\ results' = [results EXCEPT ![w] = EmptyResults]
    /\ log' = log \cup {[op |-> "start", w |-> w,
                         run |-> runs[w] + 1, call |-> calls[w]]}
    /\ UNCHANGED <<goals, fetched, saves, reports, now, mlayer, forest, hr, sleep, act, summaries, insights, alerts, wuser, calls, detected>>

\* services.py imports anomaly_detector, which imports sklearn at module level:
\* without the package the import raises and no service can be built
ImportFails(w) ==
    /\ pc[w] = "idle"
    /\ mlayer = "absent"
    /\ pc' = [pc EXCEPT ![w] = "crashed"]
    /\ log' = log \cup {[op |-> "import_error", w |-> w, run |-> runs[w], call |-> calls[w]]}
    /\ UNCHANGED <<goals, fetched, saves, reports, now, mlayer, forest, hr, sleep, act, summaries, insights, alerts, wuser,
                   results, runs, calls, detected>>

\* HealthDataService._process_recent_heart_rate; F: the readings whose
\* processing raises inside the loop's try.  When the outlier layer is broken,
\* detect_heart_rate_anomalies raises before it writes, and the except branch
\* logs the error: no reading is flagged by it and no group is added
ProcessRecentHeartRate(w) ==
    /\ pc[w] = "heart_rate"
    /\ LET u == wuser[w]
           batch == UnprocessedReadings(u)
       IN  \E F \in SubsetsUpTo(batch, MaxFailures) :
           LET done == Survivors(batch, F)
               hr1 == [i \in DOMAIN hr |-> IF i \in done THEN ProcessReading(hr[i]) ELSE hr[i]]
               W == {i \in DOMAIN hr1 : hr1[i].user = u /\ WindowStart <= hr1[i].ts /\ hr1[i].ts <= now}
               M == IF mlayer = "ok" THEN MLPredictions(u, W) ELSE {}
           IN  /\ hr' = UpdateHeartRateAnomalies(hr1, M)
               /\ results' = [results EXCEPT
                      ![w].processed.heart_rate = Cardinality(done),
                      ![w].anomalies = @ \o RuleAnomalies(hr, OrderDesc(hr, done))
                                         \o GroupAnomalies(hr1, M)]
               /\ log' = log \cup {[op |-> "heart_rate", w |-> w, run |-> runs[w],
                                    batch |-> batch, failed |-> F, counted |-> done,
                                    during |-> Running(w),
                                    ret |-> BatchReturn(Cardinality(done))]}
    /\ pc' = [pc EXCEPT ![w] = "sleep"]
    /\ UNCHANGED <<goals, fetched, saves, reports, now, mlayer, forest, sleep, act, summaries, insights, alerts, wuser, runs, calls, detected>>

\* HealthDataService._process_recent_sleep
ProcessRecentSleep(w) ==
    /\ pc[w] = "sleep"
    /\ LET u == wuser[w]
           batch == UnprocessedSessions(u)
       IN  \E F \in SubsetsUpTo(batch, MaxFailures) :
           LET done == Survivors(batch, F)
               sleep1 == [i \in DOMAIN sleep |-> IF i \in done THEN ProcessSession(sleep[i]) ELSE sleep[i]]
               poor == SelectSeq(OrderDesc(sleep, done), LAMBDA i :
                           TruthyRat(sleep1[i].quality) /\ RLt(Val(sleep1[i].quality), RInt(60)))
           IN  /\ sleep' = sleep1
               /\ insights' = insights \o
                      [k \in DOMAIN poor |->
                          [user |-> u, date |-> DateOf(sleep[poor[k]].ts), type |-> "warning",
                           category |-> "sleep", title |-> "Poor Sleep Quality"]]
               /\ results' = [results EXCEPT ![w].processed.sleep = Cardinality(done)]
               /\ log' = log \cup {[op |-> "sleep", w |-> w, run |-> runs[w],
                                    batch |-> batch, failed |-> F, counted |-> done,
                                    during |-> Running(w),
                                    ret |-> BatchReturn(Cardinality(done))]}
    /\ pc' = [pc EXCEPT ![w] = "activity"]
    /\ UNCHANGED <<goals, fetched, saves, reports, now, mlayer, forest, hr, act, summaries, alerts, wuser, runs, calls, detected>>

\* HealthDataService._process_recent_activity
ProcessRecentActivity(w) ==
    /\ pc[w] = "activity"
    /\ LET u == wuser[w]
           batch == UnprocessedActivities(u)
       IN  \E F \in SubsetsUpTo(batch, MaxFailures) :
           LET done == Survivors(batch, F)
               intense == SelectSeq(OrderDesc(act, done), LAMBDA i :
                              act[i].intensity \in {"vigorous", "maximal"})
           IN  /\ act' = [i \in DOMAIN act |-> IF i \in done THEN ProcessActivity(act[i]) ELSE act[i]]
               /\ insights' = insights \o
                      [k \in DOMAIN intense |->
                          [user |-> u, date |-> DateOf(act[intense[k]].ts), type |-> "achievement",
                           category |-> "activity", title |-> "Intense Workout Completed"]]
               /\ results' = [results EXCEPT ![w].processed.activity = Cardinality(done)]
               /\ log' = log \cup {[op |-> "activity", w |-> w, run |-> runs[w],
                                    batch |-> batch, failed |-> F, counted |-> done,
                                    during |-> Running(w),
                                    ret |-> BatchReturn(Cardinality(done))]}
    /\ pc' = [pc EXCEPT ![w] = "insights"]
    /\ UNCHANGED <<goals, fetched, saves, reports, now, mlayer, forest, hr, sleep, summaries, alerts, wuser, runs, calls, detected>>

(***************************************************************************)
(* services.py: the batch loops of a run next to another run of the same   *)
(* user.  Each loop evaluates its queryset once, when the for statement    *)
(* starts, and then works on the instances it fetched                      *)
(***************************************************************************)
\* the for statement of a batch loop evaluates the queryset: rows ids of t
FetchBatch(w, stage, t, ids) ==
    /\ pc[w] = stage
    /\ fetched' = [fetched EXCEPT ![w] = [i \in ids |-> t[i]]]
    /\ pc' = [pc EXCEPT ![w] = stage \o "_loop"]
    /\ UNCHANGED <<goals, saves, reports, now, mlayer, forest, hr, sleep, act, summaries, insights, alerts,
                   wuser, results, runs, calls, log, detected>>

FetchReadings(w) == FetchBatch(w, "heart_rate", hr, UnprocessedReadings(wuser[w]))
FetchSessions(w) == FetchBatch(w, "sleep", sleep, UnprocessedSessions(wuser[w]))
FetchActivities(w) == FetchBatch(w, "activity", act, UnprocessedActivities(wuser[w]))

\* the heart-rate loop over the fetched readings, then the outlier layer
LoopReadings(w) ==
    /\ pc[w] = "heart_rate_loop"
    /\ LET u == wuser[w]
           rows == fetched[w]
           batch == DOMAIN rows
       IN  \E F \in SubsetsUpTo(batch, MaxFailures) :
           LET done == Survivors(batch, F)
               hr1 == [i \in DOMAIN hr |-> IF i \in done THEN ProcessReading(rows[i]) ELSE hr[i]]
               W == {i \in DOMAIN hr1 : hr1[i].user = u /\ WindowStart <= hr1[i].ts /\ hr1[i].ts <= now}
               M == IF mlayer = "ok" THEN MLPredictions(u, W) ELSE {}
           IN  /\ hr' = UpdateHeartRateAnomalies(hr1, M)
               /\ results' = [results EXCEPT
                      ![w].processed.heart_rate = Cardinality(done),
                      ![w].anomalies = @ \o RuleAnomalies(rows, OrderDesc(rows, done))
                                         \o GroupAnomalies(hr1, M)]
               /\ log' = log \cup {[op |-> "heart_rate", w |-> w, run |-> runs[w],
                                    batch |-> batch, failed |-> F, counted |-> done,
                                    during |-> Running(w),
                                    ret |-> BatchReturn(Cardinality(done))]}
    /\ fetched' = [fetched EXCEPT ![w] = <<>>]
    /\ pc' = [pc EXCEPT ![w] = "sleep"]
    /\ UNCHANGED <<goals, saves, reports, now, mlayer, forest, sleep, act, summaries, insights, alerts, wuser,
                   runs, calls, detected>>

\* the sleep loop over the fetched sessions
LoopSessions(w) ==
    /\ pc[w] = "sleep_loop"
    /\ LET u == wuser[w]
           rows == fetched[w]
           batch == DOMAIN rows
       IN  \E F \in SubsetsUpTo(batch, MaxFailures) :
           LET done == Survivors(batch, F)
               sleep1 == [i \in DOMAIN sleep |-> IF i \in done THEN ProcessSession(rows[i]) ELSE sleep[i]]
               poor == SelectSeq(OrderDesc(rows, done), LAMBDA i :
                           TruthyRat(sleep1[i].quality) /\ RLt(Val(sleep1[i].quality), RInt(60)))
           IN  /\ sleep' = sleep1
               /\ insights' = insights \o
                      [k \in DOMAIN poor |->
                          [user |-> u, date |-> DateOf(rows[poor[k]].ts), type |-> "warning",
                           category |-> "sleep", title |-> "Poor Sleep Quality"]]
               /\ results' = [results EXCEPT ![w].processed.sleep = Cardinality(done)]
               /\ log' = log \cup {[op |-> "sleep", w |-> w, run |-> runs[w],
                                    batch |-> batch, failed |-> F, counted |-> done,
                                    during |-> Running(w),
                                    ret |-> BatchReturn(Cardinality(done))]}
    /\ fetched' = [fetched EXCEPT ![w] = <<>>]
    /\ pc' = [pc EXCEPT ![w] = "activity"]
    /\ UNCHANGED <<goals, saves, reports, now, mlayer, forest, hr, act, summaries, alerts, wuser, runs, calls,
                   detected>>

\* the activity loop over the fetched activities
LoopActivities(w) ==
    /\ pc[w] = "activity_loop"
    /\ LET u == wuser[w]
           rows == fetched[w]
           batch == DOMAIN rows
       IN  \E F \in SubsetsUpTo(batch, MaxFailures) :
           LET done == Survivors(batch, F)
               intense == SelectSeq(OrderDesc(rows, done), LAMBDA i :
                              rows[i].intensity \in {"vigorous", "maximal"})
           IN  /\ act' = [i \in DOMAIN act |-> IF i \in done THEN ProcessActivity(rows[i]) ELSE act[i]]
               /\ insights' = insights \o
                      [k \in DOMAIN intense |->
                          [user |-> u, date |-> DateOf(rows[intense[k]].ts), type |-> "achievement",
                           category |-> "activity", title |-> "Intense Workout Completed"]]
               /\ results' = [results EXCEPT ![w].processed.activity = Cardinality(done)]
               /\ log' = log \cup {[op |-> "activity", w |-> w, run |-> runs[w],
                                    batch |-> batch, failed |-> F, counted |-> done,
                                    during |-> Running(w),
                                    ret |-> BatchReturn(Cardinality(done))]}
    /\ fetched' = [fetched EXCEPT ![w] = <<>>]
    /\ pc' = [pc EXCEPT ![w] = "insights"]
    /\ UNCHANGED <<goals, saves, reports, now, mlayer, forest, hr, sleep, summaries, alerts, wuser, runs, calls,
                   detected>>

(***************************************************************************)
(* health_analyzer.py: generate_daily_insights and generate_health_alerts  *)
(***************************************************************************)
\* the row generate_daily_insights works on: .filter(user, date).first(), or
\* the row _create_daily_summary creates when there is none
SummaryFor(u, d) ==
    IF SummaryIds(u, d) = {} THEN CreateDailySummaryRow(u, d)
    ELSE summaries[FirstSummary(u, d)]

\* the list HealthAnalyzer.generate_daily_insights returns
DailyInsights(u, d) ==
    LET ds == SummaryFor(u, d)
        found == AnalyzeActivityInsights(ds, u, d) \o AnalyzeSleepInsights(ds)
                 \o AnalyzeHeartRateInsights(ds) \o AnalyzeOverallHealthInsights(ds)
    IN  found \o GenerateDailyRecommendations(found)

\* what HealthAnalyzer.generate_daily_insights writes
GenerateDailyInsights(u, d) ==
    /\ summaries' = IF SummaryIds(u, d) = {}
                       THEN Append(summaries, WithOverallScore(CreateDailySummaryRow(u, d)))
                       ELSE [summaries EXCEPT ![FirstSummary(u, d)] = WithOverallScore(@)]
    /\ insights' = insights \o InsightRows(DailyInsights(u, d), u, d)

\* a variant of generate_health_alerts that only evaluates its rules
EvaluateRulesOnly(u) == alerts' = alerts

\* what HealthAnalyzer.generate_health_alerts writes
GenerateHealthAlerts(u) ==
    alerts' = alerts \o AlertRows(SavedPrefix(RuleAlerts(u)), u)

\* what HealthDataService._update_daily_summary writes
UpdateDailySummary(u) ==
    summaries' = IF SummaryIds(u, Today) = {}
                    THEN Append(summaries, UpdateDailySummaryRow(DailySummary(u, Today), u, Today))
                    ELSE [summaries EXCEPT ![FirstSummary(u, Today)] =
                             UpdateDailySummaryRow(@, u, Today)]

\* today's summary rows of user u in the summaries table t
SummaryRows(t, u) ==
    LET ids == SetToSeq({i \in DOMAIN t : t[i].user = u /\ t[i].date = Today})
    IN  [k \in DOMAIN ids |-> t[ids[k]]]

\* process_recent_data: self.analyzer.generate_daily_insights()
InsightsStage(w) ==
    /\ pc[w] = "insights"
    /\ GenerateDailyInsights(wuser[w], Today)
    /\ results' = [results EXCEPT ![w].insights = @ \o DailyInsights(wuser[w], Today)]
    /\ log' = log \cup {[op |-> "insights", w |-> w, run |-> runs[w], call |-> calls[w]]}
    /\ pc' = [pc EXCEPT ![w] = "alerts"]
    /\ UNCHANGED <<goals, fetched, saves, reports, now, mlayer, forest, hr, sleep, act, alerts, wuser, runs, calls, detected>>

\* process_recent_data: self.analyzer.generate_health_alerts(); when saving an
\* alert raises, the except branch records the error and the run returns
AlertsStage(w) ==
    /\ pc[w] = "alerts"
    /\ GenerateHealthAlerts(wuser[w])
    /\ IF SaveAlertsRaises(RuleAlerts(wuser[w]))
          THEN /\ results' = [results EXCEPT ![w].error = TRUE]
               /\ pc' = [pc EXCEPT ![w] = "idle"]
               /\ log' = log \cup
                      {[op |-> "alerts", w |-> w, run |-> runs[w], call |-> calls[w]],
                       [op |-> "return", w |-> w, run |-> runs[w], call |-> calls[w],
                        error |-> TRUE, processed |-> results[w].processed,
                        summary |-> SummaryRows(summaries, wuser[w])]}
          ELSE /\ results' = [results EXCEPT ![w].alerts = @ \o RuleAlerts(wuser[w])]
               /\ pc' = [pc EXCEPT ![w] = "summary"]
               /\ log' = log \cup
                      {[op |-> "alerts", w |-> w, run |-> runs[w], call |-> calls[w]]}
    /\ UNCHANGED <<goals, fetched, saves, reports, now, mlayer, forest, hr, sleep, act, summaries, insights, wuser, runs, calls, detected>>

\* process_recent_data: self._update_daily_summary(), then return results
SummaryStage(w) ==
    /\ pc[w] = "summary"
    /\ UpdateDailySummary(wuser[w])
    /\ pc' = [pc EXCEPT ![w] = "idle"]
    /\ log' = log \cup
           {[op |-> "summary", w |-> w, run |-> runs[w], call |-> calls[w]],
            [op |-> "return", w |-> w, run |-> runs[w], call |-> calls[w],
             error |-> FALSE, processed |-> results[w].processed,
             summary |-> SummaryRows(summaries', wuser[w])]}
    /\ UNCHANGED <<goals, fetched, saves, reports, now, mlayer, forest, hr, sleep, act, insights, alerts, wuser, results, runs, calls, detected>>

(***************************************************************************)
(* services.py: the except branch of process_recent_data                   *)
(***************************************************************************)
RunStages == {"heart_rate", "sleep", "activity", "insights", "alerts", "summary"}

\* a variant of the except branch that returns a new results dict
FreshResultsOnError(res) == [EmptyResults EXCEPT !.error = TRUE]

\* except Exception as e: results['error'] = str(e)
ResultsOnError(res) == [res EXCEPT !.error = TRUE]

\* the stage the run is in raises before it has written anything (its first
\* query fails): the except branch records the error and the run returns
StageRaises(w) ==
    /\ pc[w] \in RunStages
    /\ results' = [results EXCEPT ![w] = ResultsOnError(@)]
    /\ pc' = [pc EXCEPT ![w] = "idle"]
    /\ log' = log \cup
           {[op |-> "raise", w |-> w, run |-> runs[w], call |-> calls[w], stage |-> pc[w]],
            [op |-> "return", w |-> w, run |-> runs[w], call |-> calls[w],
             error |-> TRUE, processed |-> ResultsOnError(results[w]).processed,
             summary |-> SummaryRows(summaries, wuser[w])]}
    /\ UNCHANGED <<goals, fetched, saves, reports, now, mlayer, forest, hr, sleep, act, summaries, insights,
                   alerts, wuser, runs, calls, detected>>

(***************************************************************************)
(* models.py: HealthGoal; services.py: track_health_goal                   *)
(***************************************************************************)
MaxStreak == 4

HealthGoal(u, type, target, cur, lng, primary) ==
    [user |-> u, goal_type |-> type, target_value |-> target, current_value |-> 0,
     progress_percentage |-> RInt(0), is_completed |-> FALSE,
     current_streak |-> cur, longest_streak |-> lng, is_primary |-> primary]

\* HealthGoal.save() of the instance g with primary key id: the table after it
HealthGoalSave(t, id, g) ==
    LET g1 == IF g.target_value > 0
                 THEN [g EXCEPT !.progress_percentage =
                              RMin(RInt(100), Rat(g.current_value * 100, g.target_value))]
                 ELSE g
        g2 == IF ~g1.is_completed /\ RLe(RInt(100), g1.progress_percentage)
                 THEN [g1 EXCEPT !.is_completed = TRUE]
                 ELSE g1
    IN  [i \in DOMAIN t |->
            IF i = id THEN g2
            ELSE IF g2.is_primary /\ t[i].user = g2.user /\ t[i].is_primary
                THEN [t[i] EXCEPT !.is_primary = FALSE]
            ELSE t[i]]

\* current_value for the goal's type on date d
GoalValue(u, type, d) ==
    CASE type = "steps" ->
             IF SummaryIds(u, d) = {} THEN 0 ELSE summaries[FirstSummary(u, d)].total_steps
      [] type = "sleep" ->
             IF OnDate(sleep, u, d) = {} THEN 0
             ELSE sleep[FirstLatest(sleep, OnDate(sleep, u, d))].duration
      [] type = "activity" ->
             SumOver(OnDate(act, u, d), [i \in OnDate(act, u, d) |-> act[i].duration])
      [] type = "calories" -> OrZero(SumCalories(OnDate(act, u, d)))
      [] OTHER -> 0

\* a variant of the streak update that leaves longest_streak alone
UpdateStreakOnly(g, met) ==
    IF met THEN [g EXCEPT !.current_streak = @ + 1] ELSE [g EXCEPT !.current_streak = 0]

\* the streak update of track_health_goal
UpdateStreak(g, met) ==
    IF met
        THEN [g EXCEPT !.current_streak = @ + 1,
                       !.longest_streak = IF g.current_streak + 1 > @ THEN g.current_streak + 1 ELSE @]
        ELSE [g EXCEPT !.current_streak = 0]

\* HealthDataService.track_health_goal(goal_id, date) for the service of w; a
\* goal of another user is not found
TrackHealthGoal(w) ==
    /\ pc[w] = "idle"
    /\ \E id \in DOMAIN goals, d \in {Today - 1, Today} :
           IF goals[id].user # wuser[w]
               THEN /\ goals' = goals
                    /\ log' = log \cup {[op |-> "track", w |-> w, goal |-> id, date |-> d,
                                         ret |-> [error |-> "Goal not found"]]}
               ELSE LET value == GoalValue(wuser[w], goals[id].goal_type, d)
                        t1 == HealthGoalSave(goals, id, [goals[id] EXCEPT !.current_value = value])
                        met == value >= t1[id].target_value
                        t2 == HealthGoalSave(t1, id, UpdateStreak(t1[id], met))
                    IN  /\ goals[id].current_streak < MaxStreak
                        /\ goals' = t2
                        /\ log' = log \cup {[op |-> "track", w |-> w, goal |-> id, date |-> d,
                                             ret |-> [goal_met |-> met, current_value |-> value,
                                                      current_streak |-> t2[id].current_streak,
                                                      longest_streak |-> t2[id].longest_streak]]}
    /\ UNCHANGED <<fetched, saves, reports, now, mlayer, forest, hr, sleep, act, summaries, insights,
                   alerts, wuser, pc, results, runs, calls, detected>>

(***************************************************************************)
(* Entry points called on their own, between runs                          *)
(***************************************************************************)
Called(w, op) ==
    /\ pc[w] = "idle"
    /\ mlayer # "absent"
    /\ calls[w] < MaxCalls
    /\ calls' = [calls EXCEPT ![w] = @ + 1]
    /\ log' = log \cup {[op |-> op, w |-> w, run |-> runs[w], call |-> calls[w] + 1]}

\* HealthAnalyzer.generate_daily_insights(date)
CallDailyInsights(w) ==
    /\ Called(w, "call_insights")
    /\ \E d \in {Today - 1, Today} : GenerateDailyInsights(wuser[w], d)
    /\ UNCHANGED <<goals, fetched, saves, reports, now, mlayer, forest, hr, sleep, act, alerts, wuser, pc, results, runs, detected>>

\* views.generate_alerts: HealthAnalyzer(request.user).generate_health_alerts()
CallHealthAlerts(w) ==
    /\ Called(w, "call_alerts")
    /\ GenerateHealthAlerts(wuser[w])
    /\ UNCHANGED <<goals, fetched, saves, reports, now, mlayer, forest, hr, sleep, act, summaries, insights, wuser, pc, results, runs, detected>>

\* HealthDataService._update_daily_summary()
CallUpdateDailySummary(w) ==
    /\ Called(w, "call_summary")
    /\ UpdateDailySummary(wuser[w])
    /\ UNCHANGED <<goals, fetched, saves, reports, now, mlayer, forest, hr, sleep, act, insights, alerts, wuser, pc, results, runs, detected>>

\* HealthMetricsView.get: get_or_create of today's summary
HealthMetricsViewGet(w) ==
    /\ Called(w, "call_metrics")
    /\ summaries' = IF SummaryIds(wuser[w], Today) = {}
                       THEN Append(summaries,
                                [DailySummary(wuser[w], Today) EXCEPT !.overall_score = Some(RInt(0))])
                       ELSE summaries
    /\ UNCHANGED <<goals, fetched, saves, reports, now, mlayer, forest, hr, sleep, act, insights, alerts, wuser, pc, results, runs, detected>>

\* DailySummaryViewSet.today: creates an empty summary when .first() finds none
DailySummaryToday(w) ==
    /\ Called(w, "call_today")
    /\ summaries' = IF SummaryIds(wuser[w], Today) = {}
                       THEN Append(summaries, DailySummary(wuser[w], Today))
                       ELSE summaries
    /\ UNCHANGED <<goals, fetched, saves, reports, now, mlayer, forest, hr, sleep, act, insights, alerts, wuser, pc, results, runs, detected>>

(***************************************************************************)
(* health_analyzer.py: analyze_health_trends                               *)
(***************************************************************************)
\* sum over the pairs i < j of (xs[i] - xs[j]) * (ys[i] - ys[j]); with n values
\* this is n * sum(x * y) - sum(x) * sum(y), that is n^2 times the covariance
PairSum(xs, ys) ==
    LET P == {p \in (DOMAIN xs) \X (DOMAIN xs) : p[1] < p[2]}
        f == [p \in P |-> RMul(RSub(xs[p[1]], xs[p[2]]), RSub(ys[p[1]], ys[p[2]]))]
    IN  RSum(P, f)

\* np.arange(len(values))
Arange(n) == [i \in 1..n |-> RInt(i - 1)]

\* the slope of np.polyfit(x, y, 1): cov(x, y) / var(x)
Slope(vals) == RDiv(PairSum(Arange(Len(vals)), vals), PairSum(Arange(Len(vals)), Arange(Len(vals))))

\* r_squared = 1 - ss_res / ss_tot if ss_tot != 0 else 0; for the least-squares
\* line 1 - ss_res / ss_tot is cov(x, y)^2 / (var(x) * var(y))
RSquared(vals) ==
    LET X == Arange(Len(vals))
        sxy == PairSum(X, vals)
    IN  IF PairSum(vals, vals)[1] = 0 THEN RInt(0)
        ELSE RMul(RDiv(sxy, PairSum(X, X)), RDiv(sxy, PairSum(vals, vals)))

\* a variant of the direction test that looks at the slope only
DirectionBySlope(vals) ==
    IF Slope(vals)[1] > 0 THEN "increasing"
    ELSE IF Slope(vals)[1] < 0 THEN "decreasing"
    ELSE "stable"

\* direction in HealthAnalyzer._extract_trend
TrendDirection(vals) ==
    IF Slope(vals)[1] > 0 /\ RLt(Rat(3, 10), RSquared(vals)) THEN "increasing"
    ELSE IF Slope(vals)[1] < 0 /\ RLt(Rat(3, 10), RSquared(vals)) THEN "decreasing"
    ELSE "stable"

\* HealthAnalyzer._extract_trend on the non-null values of a field, by date
ExtractTrend(vals) ==
    IF Len(vals) < 2 THEN [status |-> "insufficient_data", count |-> Len(vals)]
    ELSE [trend_direction |-> TrendDirection(vals),
          trend_strength |-> RoundTo(RSquared(vals), 1000),
          slope |-> RoundTo(Slope(vals), 10000),
          percentage_change |->
              IF vals[1][1] # 0
                  THEN RoundTo(RMul(RDiv(RSub(vals[Len(vals)], vals[1]), vals[1]), RInt(100)), 100)
                  ELSE RInt(0),
          data_points |-> Len(vals)]

\* one entry of _calculate_consistency_scores: np.std of the values against the
\* thresholds hi < lo.  std is sqrt(var), so the entry keeps var (the score and
\* the rounded std are functions of it) and compares squares
ConsistencyEntry(vals, hi, lo) ==
    LET n == Len(vals)
        var == RDiv(PairSum(vals, vals), RInt(n * n))
    IN  [var |-> var,
         interpretation |-> IF RLt(var, RInt(hi * hi)) THEN "high"
                            ELSE IF RLt(var, RInt(lo * lo)) THEN "medium" ELSE "low"]

\* the summaries of user u that analyze_health_trends(days=30) reads, by date
TrendSummaries(u) ==
    LET S == {i \in DOMAIN summaries : /\ summaries[i].user = u
                                       /\ Today - TrendDays <= summaries[i].date
                                       /\ summaries[i].date <= Today}
        nth(T) == CHOOSE i \in T : \A j \in T :
                      summaries[i].date < summaries[j].date
                      \/ (summaries[i].date = summaries[j].date /\ i <= j)
        RECURSIVE ord(_)
        ord(T) == IF T = {} THEN <<>> ELSE <<nth(T)>> \o ord(T \ {nth(T)})
    IN  ord(S)

\* the values [f(s) for s in daily_summaries if keep(s)]
Series(ids, f(_), keep(_)) ==
    LET kept == SelectSeq(ids, LAMBDA i : keep(summaries[i]))
    IN  [k \in DOMAIN kept |-> f(summaries[kept[k]])]

\* HealthAnalyzer._calculate_consistency_scores: a key is present only when its
\* list of truthy values is not empty
ConsistencyScores(u, ids) ==
    LET steps == Series(ids, LAMBDA r : RInt(r.total_steps), LAMBDA r : r.total_steps # 0)
        slp == Series(ids, LAMBDA r : RInt(Val(r.sleep_duration)), LAMBDA r : TruthyInt(r.sleep_duration))
        first == summaries[ids[1]].date
        last == summaries[ids[Len(ids)]].date
        nights == SetToSeq({i \in Of(sleep, u) : /\ first <= DateOf(sleep[i].ts)
                                                  /\ DateOf(sleep[i].ts) <= last})
        bed == [k \in DOMAIN nights |-> RInt(sleep[nights[k]].ts % DayMinutes)]
    IN  [k \in {"steps" : x \in {1} \cap {IF steps = <<>> THEN 0 ELSE 1}}
               \cup {"sleep" : x \in {1} \cap {IF slp = <<>> THEN 0 ELSE 1}}
               \cup {"bedtime" : x \in {1} \cap {IF bed = <<>> THEN 0 ELSE 1}} |->
            CASE k = "steps" -> ConsistencyEntry(steps, 1000, 2000)
              [] k = "sleep" -> ConsistencyEntry(slp, 60, 120)
              [] OTHER -> ConsistencyEntry(bed, 30, 60)]

\* np.mean of a non-empty sequence of integers
Mean(vals) == Rat(SumSeq(vals), Len(vals))

\* date.weekday() of a day number: Monday = 0; day 0 is a Thursday
Weekday(d) == (d + 3) % 7

\* HealthAnalyzer._identify_health_patterns: the types of the patterns found
HealthPatterns(ids) ==
    LET wk == Series(SelectSeq(ids, LAMBDA i : Weekday(summaries[i].date) < 5),
                     LAMBDA r : r.total_steps, LAMBDA r : r.total_steps # 0)
        we == Series(SelectSeq(ids, LAMBDA i : Weekday(summaries[i].date) >= 5),
                     LAMBDA r : r.total_steps, LAMBDA r : r.total_steps # 0)
        slp == Series(ids, LAMBDA r : Val(r.sleep_duration), LAMBDA r : TruthyInt(r.sleep_duration))
    IN  (IF wk # <<>> /\ we # <<>> /\ RLt(RInt(2000), RSub(Mean(we), Mean(wk)))
             THEN {"weekend_activity_surge"}
         ELSE IF wk # <<>> /\ we # <<>> /\ RLt(RInt(2000), RSub(Mean(wk), Mean(we)))
             THEN {"weekend_activity_dip"}
         ELSE {})
        \cup (IF slp # <<>> /\ RLt(Mean(slp), RInt(420)) THEN {"chronic_sleep_deficit"} ELSE {})

\* trend.get('trend_direction') and trend.get('percentage_change', 0)
DirectionOf(t) == IF "trend_direction" \in DOMAIN t THEN t.trend_direction ELSE "none"
ChangeOf(t) == IF "percentage_change" \in DOMAIN t THEN t.percentage_change ELSE RInt(0)

\* HealthAnalyzer._generate_trend_insights: the titles, in order
TrendInsights(trends, consistency, patterns) ==
    (IF DirectionOf(trends.steps) = "increasing" /\ RLt(RInt(10), ChangeOf(trends.steps))
         THEN <<"Improving Activity Level">>
     ELSE IF DirectionOf(trends.steps) = "decreasing" /\ RLt(ChangeOf(trends.steps), RInt(-10))
         THEN <<"Declining Activity Level">>
     ELSE <<>>)
    \o (IF /\ DirectionOf(trends.sleep_duration) = "increasing"
           /\ RLt(RInt(10), ChangeOf(trends.sleep_duration))
            THEN <<"Improving Sleep Habits">> ELSE <<>>)
    \o (IF "steps" \in DOMAIN consistency /\ consistency["steps"].interpretation = "high"
            THEN <<"Consistent Activity Level">> ELSE <<>>)
    \o (IF "weekend_activity_dip" \in patterns THEN <<"Weekend Activity Opportunity">> ELSE <<>>)
    \o (IF "chronic_sleep_deficit" \in patterns THEN <<"Prioritize Sleep Duration">> ELSE <<>>)

\* overall_trend of HealthAnalyzer._generate_trend_summary
OverallTrend(trends) ==
    LET up == Cardinality({m \in DOMAIN trends :
                  DirectionOf(trends[m]) = "increasing" /\ m # "heart_rate"})
        down == Cardinality({m \in DOMAIN trends : DirectionOf(trends[m]) = "decreasing"})
    IN  IF up > down THEN "improving" ELSE IF down > up THEN "declining" ELSE "stable"

\* what HealthAnalyzer(user).analyze_health_trends(days=30) returns
HealthTrends(u) ==
    LET ids == TrendSummaries(u)
        trends ==
            [steps |-> ExtractTrend(Series(ids, LAMBDA r : RInt(r.total_steps), LAMBDA r : TRUE)),
             sleep_duration |-> ExtractTrend(Series(ids, LAMBDA r : RInt(Val(r.sleep_duration)),
                                                    LAMBDA r : r.sleep_duration # None)),
             heart_rate |-> ExtractTrend(Series(ids, LAMBDA r : Val(r.avg_hr),
                                                LAMBDA r : r.avg_hr # None)),
             overall_score |-> ExtractTrend(Series(ids, LAMBDA r : Val(r.overall_score),
                                                   LAMBDA r : r.overall_score # None))]
        consistency == ConsistencyScores(u, ids)
        patterns == HealthPatterns(ids)
    IN  IF ids = <<>> THEN [status |-> "no_data", user |-> u]
        ELSE [user |-> u,
              trends |-> trends,
              consistency |-> consistency,
              patterns |-> patterns,
              insights |-> TrendInsights(trends, consistency, patterns),
              summary |-> [overall_trend |-> OverallTrend(trends)]]

\* HealthDataService.get_health_trends: a read of the store
AnalyzeHealthTrends(w) ==
    /\ Len(reports) < MaxReports
    /\ mlayer # "absent"
    /\ reports' = Append(reports, HealthTrends(wuser[w]))
    /\ UNCHANGED <<goals, fetched, saves, now, mlayer, forest, hr, sleep, act, summaries, insights, alerts, wuser, pc,
                   results, runs, calls, log, detected>>

(***************************************************************************)
(* heart_rate_processor.py: get_heart_rate_trends                          *)
(***************************************************************************)
\* HeartRateProcessor._analyze_trend
AnalyzeTrend(vals) ==
    IF Len(vals) < 2 THEN [direction |-> "insufficient_data", strength |-> RInt(0)]
    ELSE [direction |-> IF RLt(Rat(1, 10), Slope(vals)) THEN "up"
                        ELSE IF RLt(Slope(vals), Rat(-1, 10)) THEN "down"
                        ELSE "stable",
          strength |-> RoundTo(RSquared(vals), 1000),
          slope |-> RoundTo(Slope(vals), 1000)]

\* the readings of timestamp__date__range=[today - days, today] under the
\* model's ordering ['-timestamp']: latest first, ties by key
TrendReadings(u) ==
    LET S == {i \in Of(hr, u) : /\ Today - HrTrendDays <= DateOf(hr[i].ts)
                                /\ DateOf(hr[i].ts) <= Today}
        RECURSIVE ord(_)
        ord(T) == IF T = {} THEN <<>>
                  ELSE <<FirstLatest(hr, T)>> \o ord(T \ {FirstLatest(hr, T)})
    IN  ord(S)

\* what HeartRateProcessor.get_heart_rate_trends(user) returns: {} without readings
HeartRateTrends(u) ==
    LET ids == TrendReadings(u)
        bpm == [k \in DOMAIN ids |-> RInt(hr[ids[k]].bpm)]
    IN  IF ids = <<>> THEN [user |-> u, total_readings |-> 0]
        ELSE [user |-> u, total_readings |-> Len(ids), trend_analysis |-> AnalyzeTrend(bpm)]

GetHeartRateTrends(w) ==
    /\ Len(reports) < MaxReports
    /\ mlayer # "absent"
    /\ reports' = Append(reports, HeartRateTrends(wuser[w]))
    /\ UNCHANGED <<goals, fetched, saves, now, mlayer, forest, hr, sleep, act, summaries, insights, alerts, wuser, pc,
                   results, runs, calls, log, detected>>

(***************************************************************************)
(* models.py: SleepSession.save on a new instance                          *)
(***************************************************************************)
\* SleepSession(**f).save(): f holds the constructor's keywords, None for a
\* field left out.  The result is the exception raised ("" for none) and the
\* duration and efficiency of the instance.  `None > 0` raises TypeError; the
\* INSERT of a NULL start_time, end_time or duration_minutes raises
\* IntegrityError
SaveNewSession(f) ==
    LET d == IF ~TruthyInt(f.duration) /\ f.start # None /\ f.end # None
                THEN Some(Val(f.end) - Val(f.start)) ELSE f.duration
        total == f.awake + f.light + f.deep + f.rem
    IN  IF ~TruthyRat(f.efficiency) /\ d = None
            THEN [raised |-> "TypeError", duration |-> d, efficiency |-> f.efficiency]
        ELSE LET eff == IF ~TruthyRat(f.efficiency) /\ Val(d) > 0 /\ total > 0
                           THEN Some(Rat(total * 100, Val(d))) ELSE f.efficiency
             IN  IF f.start = None \/ f.end = None \/ d = None
                     THEN [raised |-> "IntegrityError", duration |-> d, efficiency |-> eff]
                 ELSE [raised |-> "", duration |-> d, efficiency |-> eff]

\* the keywords of a new session: None marks a field left out
SessionForm(start, end, dur, awake, light, deep, rem, intr, eff) ==
    [start |-> start, end |-> end, duration |-> dur, awake |-> awake, light |-> light,
     deep |-> deep, rem |-> rem, interruptions |-> intr, efficiency |-> eff]

\* the sessions a client or a script builds; those with times start at 01:40
\* of day 2
SessionForms ==
    {SessionForm(None, None, None, 20, 210, 90, 100, 1, None),
     SessionForm(None, None, None, 0, 300, 60, 60, 0, None),
     SessionForm(None, None, None, 0, 0, 0, 0, 0, None),
     SessionForm(None, None, Some(0), 20, 210, 90, 100, 1, None),
     SessionForm(None, None, Some(420), 20, 210, 90, 100, 1, None),
     SessionForm(None, None, None, 20, 210, 90, 100, 1, Some(RInt(95))),
     SessionForm(Some(2980), Some(3400), Some(420), 20, 210, 90, 100, 1, Some(RInt(95))),
     SessionForm(Some(2980), Some(3400), None, 20, 210, 90, 100, 1, None),
     SessionForm(Some(2980), Some(3400), Some(420), 20, 210, 90, 100, 1, None),
     SessionForm(Some(2980), Some(3340), Some(360), 60, 250, 20, 30, 6, None),
     SessionForm(Some(2980), Some(3520), Some(540), 20, 330, 90, 100, 4, Some(RInt(80)))}

\* the row the INSERT writes for a form whose save did not raise
SavedSession(u, f) ==
    SleepSessionSave(
        [user |-> u, ts |-> Val(f.start), end |-> Val(f.end),
         duration |-> Val(SaveNewSession(f).duration),
         awake |-> f.awake, light |-> f.light, deep |-> f.deep, rem |-> f.rem,
         interruptions |-> f.interruptions, quality |-> None, category |-> "",
         efficiency |-> SaveNewSession(f).efficiency, restless |-> FALSE, processed |-> FALSE])

\* a new SleepSession is built from f and saved
CreateSleepSession(w) ==
    /\ Called(w, "save_sleep")
    /\ \E f \in SessionForms :
           /\ sleep' = IF SaveNewSession(f).raised = "" THEN Append(sleep, SavedSession(wuser[w], f))
                       ELSE sleep
           /\ saves' = Append(saves, [form |-> f, result |-> SaveNewSession(f),
                                      row |-> IF SaveNewSession(f).raised = "" THEN Len(sleep) + 1 ELSE 0])
    /\ UNCHANGED <<goals, fetched, reports, now, mlayer, forest, hr, act, summaries, insights, alerts, wuser, pc,
                   results, runs, detected>>

(***************************************************************************)
(* Alerts outside the engine: the API's create and the admin's escalation  *)
(***************************************************************************)
\* HealthAlert.SEVERITY_LEVELS, in order
SeverityLevels == <<"info", "low", "medium", "high", "critical">>

\* the position of severity s in SEVERITY_LEVELS
SeverityRank(s) == CHOOSE k \in DOMAIN SeverityLevels : SeverityLevels[k] = s

\* a variant of the map that sends every severity straight to the top
RaiseToCritical(s) == "critical"

\* severity_map of HealthAlertAdmin.escalate_severity; a severity that is not a
\* key of the map (critical) is left as it is
EscalatedSeverity(s) ==
    CASE s = "info" -> "low"
      [] s = "low" -> "medium"
      [] s = "medium" -> "high"
      [] s = "high" -> "critical"
      [] OTHER -> s

\* HealthAlertViewSet.create: the user posts an alert of any severity
CreateAlert(w) ==
    /\ pc[w] = "idle"
    /\ calls[w] < MaxCalls
    /\ calls' = [calls EXCEPT ![w] = @ + 1]
    /\ \E sev \in {"info", "high", "critical"} :
           alerts' = Append(alerts, [user |-> wuser[w], type |-> "custom", severity |-> sev,
                                     title |-> "Custom", related_id |-> None])
    /\ log' = log \cup {[op |-> "create_alert", w |-> w, run |-> runs[w], call |-> calls[w] + 1]}
    /\ UNCHANGED <<goals, fetched, saves, reports, now, mlayer, forest, hr, sleep, act, summaries, insights, wuser, pc, results, runs, detected>>

\* HealthAlertAdmin.escalate_severity(request, queryset): the admin selects
\* alerts Q of any users, in the session of worker w
EscalateSeverity(w) ==
    /\ pc[w] = "idle"
    /\ calls[w] < MaxCalls
    /\ calls' = [calls EXCEPT ![w] = @ + 1]
    /\ \E Q \in SubsetsUpTo(DOMAIN alerts, MaxSelected) :
           /\ alerts' = [i \in DOMAIN alerts |->
                            IF i \in Q THEN [alerts[i] EXCEPT !.severity = EscalatedSeverity(@)]
                            ELSE alerts[i]]
           /\ log' = log \cup {[op |-> "escalate", w |-> w, run |-> runs[w],
                                call |-> calls[w] + 1, selected |-> Q]}
    /\ UNCHANGED <<goals, fetched, saves, reports, now, mlayer, forest, hr, sleep, act, summaries, insights, wuser, pc, results, runs, detected>>

(***************************************************************************)
(* heart_rate_processor.py: HeartRateProcessor.detect_anomalies            *)
(***************************************************************************)
\* a variant of the window that leaves out the readings already flagged
DetectWindowUnflagged(u) ==
    OrderAsc(hr, {i \in InWindow(hr, u, now - DayMinutes, now) : ~hr[i].is_anomaly})

\* the readings of the call, .order_by('timestamp'): primary keys in order
DetectWindow(u) == OrderAsc(hr, InWindow(hr, u, now - DayMinutes, now))

\* np.mean and np.std of the bpm values, kept exact: with n readings,
\* mean = sum / n and std = sqrt(var) / n where var = n * sumsq - sum^2
Stats(ids) ==
    LET B == [k \in DOMAIN ids |-> hr[ids[k]].bpm]
        Q == [k \in DOMAIN ids |-> hr[ids[k]].bpm * hr[ids[k]].bpm]
    IN  [n |-> Len(ids), sum |-> SumSeq(B), var |-> Len(ids) * SumSeq(Q) - SumSeq(B) * SumSeq(B)]

\* z_score = (bpm - mean) / std if std > 0 else 0, as the pair <<d, v>> that
\* stands for d / sqrt(v)
ZScore(bpm, st) == IF st.var > 0 THEN <<st.n * bpm - st.sum, st.var>> ELSE <<0, 1>>

\* abs(z_score) > k
ZAbove(z, k) == z[1] * z[1] > k * k * z[2]

\* the dicts the loop over the readings appends
PointAnomalies(ids, st) ==
    LET out == SelectSeq(ids, LAMBDA i : ZAbove(ZScore(hr[i].bpm, st), 3))
    IN  [k \in DOMAIN out |->
            LET z == ZScore(hr[out[k]].bpm, st)
            IN  [type |-> IF z[1] > 0 THEN "high_heart_rate" ELSE "low_heart_rate",
                 severity |-> IF ZAbove(z, 4) THEN "critical" ELSE "high",
                 reading_id |-> out[k]]]

\* a variant of the sustained test with >= in place of >
SustainedHighOrEqual(ids, st, i) ==
    LET B == [k \in 1..PatternWindow |-> hr[ids[i + k - 1]].bpm]
        d == st.n * SumSeq(B) - PatternWindow * st.sum
    IN  d >= 0 /\ d * d >= 4 * PatternWindow * PatternWindow * st.var

\* window_mean > mean_bpm + 2 * std_bpm for the ten readings from position i
SustainedHigh(ids, st, i) ==
    LET B == [k \in 1..PatternWindow |-> hr[ids[i + k - 1]].bpm]
        d == st.n * SumSeq(B) - PatternWindow * st.sum
    IN  d > 0 /\ d * d > 4 * PatternWindow * PatternWindow * st.var

\* HeartRateProcessor._detect_hrv_issues: RMSSD of the gaps between readings,
\* in milliseconds, against the thresholds 10 and 20.  rmssd < ms is
\* sum(sq) * 10^6 < ms^2 * len(sq), with the gaps rr in seconds
DetectHrvIssues(ids) ==
    IF Len(ids) < MinHrvReadings THEN <<>>
    ELSE LET rr == [k \in 1..(Len(ids) - 1) |-> 60 * (hr[ids[k + 1]].ts - hr[ids[k]].ts)]
             sq == [k \in 1..(Len(rr) - 1) |-> (rr[k + 1] - rr[k]) * (rr[k + 1] - rr[k])]
             below(ms) == SumSeq(sq) <= (ms * ms * Len(sq) - 1) \div 1000000
         IN  IF below(10) THEN <<[type |-> "very_low_hrv", severity |-> "high"]>>
             ELSE IF below(20) THEN <<[type |-> "low_hrv", severity |-> "medium"]>>
             ELSE <<>>

\* HeartRateProcessor._detect_patterns: the first sustained window, then HRV
DetectPatterns(ids, st) ==
    IF Len(ids) < MinPatternReadings THEN <<>>
    ELSE LET starts == {i \in 1..(Len(ids) - PatternWindow + 1) : SustainedHigh(ids, st, i)}
         IN  (IF starts = {} THEN <<>>
              ELSE LET i == SetMin(starts)
                   IN  <<[type |-> "sustained_high_heart_rate", severity |-> "medium",
                          start_time |-> hr[ids[i]].ts,
                          end_time |-> hr[ids[i + PatternWindow - 1]].ts]>>)
             \o DetectHrvIssues(ids)

\* the list HeartRateProcessor.detect_anomalies returns for user u
DetectedAnomalies(u) ==
    LET ids == DetectWindow(u)
    IN  IF Len(ids) < MinDetectReadings THEN <<>>
        ELSE PointAnomalies(ids, Stats(ids)) \o DetectPatterns(ids, Stats(ids))

RECURSIVE MarkAnomaliesInDatabase(_, _)
\* HeartRateProcessor._mark_anomalies_in_database, one anomaly after the other
MarkAnomaliesInDatabase(t, as) ==
    IF as = <<>> THEN t
    ELSE LET a == Head(as)
             t1 == IF "reading_id" \in DOMAIN a /\ a.reading_id \in DOMAIN t
                      THEN [t EXCEPT ![a.reading_id].is_anomaly = TRUE,
                                     ![a.reading_id].anomaly_type = a.type]
                      ELSE t
         IN  MarkAnomaliesInDatabase(t1, Tail(as))

\* HeartRateProcessor.detect_anomalies(user)
DetectAnomalies(w) ==
    /\ Len(detected) < MaxDetect
    /\ hr' = MarkAnomaliesInDatabase(hr, DetectedAnomalies(wuser[w]))
    /\ detected' = Append(detected,
           [user |-> wuser[w], by |-> "statistics",
            anomalies |-> DetectedAnomalies(wuser[w]), before |-> hr, after |-> hr'])
    /\ UNCHANGED <<goals, fetched, saves, reports, now, mlayer, forest, sleep, act, summaries, insights, alerts, wuser, pc, results,
                   runs, calls, log>>

\* AnomalyDetector(user).detect_heart_rate_anomalies() over its default window,
\* the last seven days
DetectHeartRateAnomalies(w) ==
    /\ Len(detected) < MaxDetect
    /\ mlayer = "ok"
    /\ LET u == wuser[w]
           M == MLPredictions(u, InWindow(hr, u, now - 7 * DayMinutes, now))
       IN  /\ hr' = UpdateHeartRateAnomalies(hr, M)
           /\ detected' = Append(detected,
                  [user |-> u, by |-> "forest",
                   anomalies |-> GroupAnomalies(hr, M), before |-> hr, after |-> hr'])
    /\ UNCHANGED <<goals, fetched, saves, reports, now, mlayer, forest, sleep, act, summaries, insights, alerts, wuser, pc, results,
                   runs, calls, log>>

(***************************************************************************)
(* Initial stores                                                          *)
(***************************************************************************)
\* minute m of day d
At(d, m) == d * DayMinutes + m

\* the session runs on day 2, at 10:00 or at 16:00
Nows == {At(2, 600), At(2, 960)}

Processed(r) == [r EXCEPT !.processed = TRUE]

\* fifty readings one minute apart, all but the last already processed
FiftyReadings(u) ==
    [k \in 1..MinMLReadings |->
        IF k < MinMLReadings
            THEN Processed(HeartRateReading(u, 70 + (k % 3), "active", At(2, 400 + k)))
            ELSE HeartRateReading(u, 95, "active", At(2, 400 + k))]

DataIds == 1..5

\* the records user u has synced, as the API stored them
Data(u, k) ==
    CASE k = 1 ->   \* a full day: readings, a night's sleep, a walk
        [hr |-> <<HeartRateReading(u, 55, "rest", At(2, 480)),
                  HeartRateReading(u, 45, "active", At(2, 540)),
                  HeartRateReading(u, 130, "rest", At(1, 1200)),
                  HeartRateReading(u, 64, "rest", At(1, 120))>>,
         sleep |-> <<SleepSession(u, At(2, 30), 450, 20, 240, 100, 90, 3, None)>>,
         act |-> <<Activity(u, At(2, 420), "walking", "moderate", 60, 300, Some(8000), Some(110))>>]
      [] k = 2 ->   \* a client that reports a sleep quality of 150
        [hr |-> <<HeartRateReading(u, 58, "rest", At(2, 450))>>,
         sleep |-> <<SleepSession(u, At(2, 10), 480, 10, 250, 110, 110, 1, Some(RInt(150)))>>,
         act |-> <<Activity(u, At(2, 400), "running", "vigorous", 90, 900, Some(12000), Some(150))>>]
      [] k = 3 ->   \* nothing synced
        [hr |-> <<>>, sleep |-> <<>>, act |-> <<>>]
      [] k = 4 ->   \* resting readings only, one of them processed earlier
        [hr |-> <<Processed(HeartRateReading(u, 90, "rest", At(2, 300))),
                  HeartRateReading(u, 88, "rest", At(2, 360))>>,
         sleep |-> <<>>, act |-> <<>>]
      [] k = 5 ->   \* a short night yesterday, two workouts today
        [hr |-> <<>>,
         sleep |-> <<SleepSession(u, At(1, 1300), 300, 70, 150, 40, 40, 12, Some(RInt(40)))>>,
         act |-> <<Activity(u, At(1, 1000), "yoga", "light", 30, 90, None, None),
                   Activity(u, At(2, 380), "cycling", "vigorous", 45, 500, Some(0), Some(140)),
                   Activity(u, At(2, 500), "walking", "light", 20, 60, Some(2500), None)>>]
      [] k = 7 ->   \* fifty readings, an active reading of 45, a night, a run
        [hr |-> FiftyReadings(u) \o <<HeartRateReading(u, 45, "active", At(2, 460))>>,
         sleep |-> <<SleepSession(u, At(2, 10), 440, 20, 230, 100, 90, 2, None)>>,
         act |-> <<Activity(u, At(2, 390), "running", "vigorous", 30, 350, Some(4000), Some(150))>>]
      [] OTHER ->   \* enough readings for the isolation forest
        [hr |-> FiftyReadings(u), sleep |-> <<>>, act |-> <<>>]

IdleWorkers == [w \in Workers |-> "idle"]

\* the store holds the records of users a and b; every service is idle
InitStore(da, db, dc, dd) ==
    /\ hr = da.hr \o db.hr \o dc.hr \o dd.hr
    /\ sleep = da.sleep \o db.sleep \o dc.sleep \o dd.sleep
    /\ act = da.act \o db.act \o dc.act \o dd.act
    /\ summaries = <<>>
    /\ insights = <<>>
    /\ alerts = <<>>
    /\ wuser = [w \in Workers |-> CASE w = "w1" -> "A" [] w = "w2" -> "B"
                                    [] w = "s1" -> "C" [] OTHER -> "D"]
    /\ pc = IdleWorkers
    /\ results = [w \in Workers |-> EmptyResults]
    /\ runs = [w \in Workers |-> 0]
    /\ calls = [w \in Workers |-> 0]
    /\ log = {}
    /\ detected = <<>>
    /\ reports = <<>>
    /\ saves = <<>>
    /\ fetched = [w \in Workers |-> <<>>]
    /\ goals = <<>>

\* one service instance, for user A; user B's records share the tables
Init ==
    /\ now \in Nows
    /\ mlayer = "ok"
    /\ forest = [u \in Users |-> {}]
    /\ \E a \in DataIds, b \in {1, 3} :
           InitStore(Data("A", a), Data("B", b), Data("C", 3), Data("D", 3))

RunStep(w) ==
    \/ StartRun(w)
    \/ ProcessRecentHeartRate(w)
    \/ ProcessRecentSleep(w)
    \/ ProcessRecentActivity(w)
    \/ InsightsStage(w)
    \/ AlertsStage(w)
    \/ SummaryStage(w)

CallStep(w) ==
    \/ CallDailyInsights(w)
    \/ CallHealthAlerts(w)
    \/ CallUpdateDailySummary(w)
    \/ HealthMetricsViewGet(w)
    \/ DailySummaryToday(w)

Next == RunStep("w1") \/ CallStep("w1")

Spec == Init /\ [][Next]_vars

(***************************************************************************)
(* Windows of readings for HeartRateProcessor.detect_anomalies             *)
(***************************************************************************)
WindowSizes == {9, 11, 18, 20, 30, 51}
WindowShapes == {"flat", "spike", "dip", "two", "block"}

\* the bpm of reading k of a window: base everywhere but at the shape's readings
ShapeBpm(shape, base, k) ==
    CASE shape = "spike" /\ k = 3 -> base + 80
      [] shape = "dip" /\ k = 3 -> 35
      [] shape = "two" /\ k \in {3, 7} -> base + 80
      [] shape = "block" /\ k \in 5..14 -> base + 60
      [] shape = "lowblock" /\ k \in 5..14 -> base - 25
      [] OTHER -> base

\* n readings of user u from 02:00 of day 2 on, one minute apart when even,
\* else alternately one and three minutes apart
Window(u, n, shape, base, even) ==
    [k \in 1..n |->
        HeartRateReading(u, ShapeBpm(shape, base, k), "active",
                         At(2, 120) + (IF even THEN k ELSE 2 * k + (k % 2)))]

InitDetect ==
    /\ now = At(2, 600)
    /\ mlayer = "ok"
    /\ \E n \in WindowSizes, shape \in WindowShapes, base \in {60, 72}, even \in BOOLEAN :
           /\ \E M \in (IF n < MinMLReadings THEN {{}} ELSE SubsetsUpTo(1..n, MaxMLFlagged)) :
                  forest = [u \in Users |-> IF u = "A" THEN M ELSE {}]
           /\ InitStore([hr |-> Window("A", n, shape, base, even), sleep |-> <<>>, act |-> <<>>],
                     [hr |-> <<HeartRateReading("B", 200, "workout", At(2, 130))>>,
                      sleep |-> <<>>, act |-> <<>>],
                     Data("C", 3), Data("D", 3))

NextDetect == \E w \in {"w1", "w2"} : DetectAnomalies(w) \/ DetectHeartRateAnomalies(w)

SpecDetect == InitDetect /\ [][NextDetect]_vars

(***************************************************************************)
(* Two users: concurrent runs next to the same runs one after the other    *)
(***************************************************************************)
\* C and D hold copies of the records of A and B
Twin(u) == IF u = "A" THEN "C" ELSE "D"

\* the datasets of A and B: small ones, and fifty readings for the forest
UserData == {<<1, 5>>, <<2, 1>>, <<2, 5>>, <<6, 4>>}

\* users A and B sync their records; C and D sync the same records, and the
\* forest predicts for C's window what it predicts for A's
InitUsers ==
    /\ mlayer = "ok"
    /\ \E d \in UserData :
           LET K == Len(Data("A", d[1]).hr) + Len(Data("B", d[2]).hr)
           IN  /\ \E M \in (IF Len(Data("A", d[1]).hr) < MinMLReadings THEN {{}}
                             ELSE SubsetsUpTo(1..MinMLReadings, MaxMLFlagged)) :
                      forest = [u \in Users |-> IF u = "A" THEN M
                                                ELSE IF u = "C" THEN {i + K : i \in M}
                                                ELSE {}]
               /\ now \in (IF d[1] = 6 THEN {At(2, 600)} ELSE Nows)
               /\ InitStore(Data("A", d[1]), Data("B", d[2]),
                            Data("C", d[1]), Data("D", d[2]))

\* service w has run process_recent_data to its return
Finished(w) == runs[w] >= 1 /\ pc[w] = "idle"

\* s1 runs first, s2 after s1 has returned, then w1 and w2 run concurrently;
\* each service runs once
Turn(w) ==
    /\ ~Finished(w)
    /\ w = "s2" => Finished("s1")
    /\ w \in {"w1", "w2"} => Finished("s2")

\* in the runs of s1 and s2 no record fails
Faultless(w) ==
    w \in {"s1", "s2"} => \A e \in (log' \ log) : e.op \in BatchOps => e.failed = {}

NextUsers == \E w \in Workers : Turn(w) /\ RunStep(w) /\ Faultless(w)

SpecUsers == InitUsers /\ [][NextUsers]_vars

(***************************************************************************)
(* Alerts: the engine's runs next to the API's create and the admin        *)
(***************************************************************************)
InitAlerts ==
    /\ now = At(2, 600)
    /\ mlayer = "ok"
    /\ forest = [u \in Users |-> {}]
    /\ InitStore(Data("A", 3), Data("B", 3), Data("C", 1), Data("D", 3))

\* the service s1 of user C, whose runs are free of failing records
NextAlerts ==
    \/ RunStep("s1") /\ Faultless("s1")
    \/ CallHealthAlerts("s1")
    \/ CreateAlert("s1")
    \/ EscalateSeverity("s1")
    \/ DetectAnomalies("s1")
    \/ DetectHeartRateAnomalies("s1")

SpecAlerts == InitAlerts /\ [][NextAlerts]_vars

(***************************************************************************)
(* The outlier layer working, broken or absent                             *)
(***************************************************************************)
InitML ==
    /\ now \in Nows
    /\ mlayer \in {"ok", "broken", "absent"}
    /\ \E a \in {1, 7} :
           /\ \E M \in (IF Len(Data("A", a).hr) < MinMLReadings THEN {{}}
                         ELSE SubsetsUpTo(1..MinMLReadings, MaxMLFlagged)) :
                  forest = [u \in Users |-> IF u = "A" THEN M ELSE {}]
           /\ InitStore(Data("A", a), Data("B", 3), Data("C", 3), Data("D", 3))

NextML == RunStep("w1") \/ ImportFails("w1")

SpecML == InitML /\ [][NextML]_vars

(***************************************************************************)
(* The trend analyses over a stored history of daily summaries             *)
(***************************************************************************)
\* daily step totals of the history, oldest first; the first day is a Saturday
StepsSeries ==
    {<<>>, <<8000>>, <<0>>, <<5000, 5000>>, <<3000, 4000, 5000>>, <<1000, 3000, 2000>>,
     <<6000, 5000, 4000, 3000>>, <<7000, 7500, 4000, 4100>>, <<0, 6000, 0, 6200>>,
     <<4000, 4200, 3900, 4100, 4050>>, <<4000, 4400, 4100, 4300, 4600>>}

\* the night's minutes of sleep in the summary of day k of n
SleepOfDay(p, k) ==
    CASE p = "never" -> None
      [] p = "once" -> IF k = 1 THEN Some(400) ELSE None
      [] p = "rising" -> Some(360 + 60 * k)
      [] OTHER -> Some(450)

\* the mean heart rate in the summary of day k
HeartOfDay(p, k) ==
    CASE p = "never" -> None
      [] p = "once" -> IF k = 2 THEN Some(Rat(361, 5)) ELSE None
      [] OTHER -> Some(Rat(700 - 15 * k, 10))

History(u, steps, sp, hp) ==
    [k \in DOMAIN steps |->
        [DailySummary(u, 1 + k) EXCEPT !.total_steps = steps[k],
                                       !.sleep_duration = SleepOfDay(sp, k),
                                       !.avg_hr = HeartOfDay(hp, k),
                                       !.overall_score = IF hp = "never" THEN None
                                                         ELSE Some(RInt(70 + 5 * k))]]

\* the readings and nights behind the history
Recorded(u, k) ==
    CASE k = 0 -> [hr |-> <<>>, sleep |-> <<>>]
      [] k = 1 -> [hr |-> <<HeartRateReading(u, 72, "rest", At(5, 480))>>,
                   sleep |-> <<SleepSession(u, At(4, 1380), 450, 20, 240, 100, 90, 1, None)>>]
      [] OTHER -> [hr |-> <<HeartRateReading(u, 62, "rest", At(4, 480)),
                            HeartRateReading(u, 66, "rest", At(5, 480)),
                            HeartRateReading(u, 71, "rest", At(6, 480))>>,
                   sleep |-> <<SleepSession(u, At(4, 1380), 450, 20, 240, 100, 90, 1, None),
                               SleepSession(u, At(5, 1290), 450, 20, 240, 100, 90, 1, None)>>]

InitTrends ==
    /\ now = At(6, 600)
    /\ mlayer = "ok"
    /\ forest = [u \in Users |-> {}]
    /\ \E steps \in StepsSeries, sp \in {"never", "once", "rising", "flat"},
          hp \in {"never", "once", "falling"}, k \in 0..2 :
          /\ summaries = History("A", steps, sp, hp)
          /\ hr = Recorded("A", k).hr
          /\ sleep = Recorded("A", k).sleep
    /\ act = <<>>
    /\ insights = <<>>
    /\ alerts = <<>>
    /\ wuser = [w \in Workers |-> CASE w = "w1" -> "A" [] w = "w2" -> "B"
                                    [] w = "s1" -> "C" [] OTHER -> "D"]
    /\ pc = IdleWorkers
    /\ results = [w \in Workers |-> EmptyResults]
    /\ runs = [w \in Workers |-> 0]
    /\ calls = [w \in Workers |-> 0]
    /\ log = {}
    /\ detected = <<>>
    /\ reports = <<>>
    /\ saves = <<>>
    /\ fetched = [w \in Workers |-> <<>>]
    /\ goals = <<>>

NextTrends ==
    \/ AnalyzeHealthTrends("w1")
    \/ GetHeartRateTrends("w1")

SpecTrends == InitTrends /\ [][NextTrends]_vars

(***************************************************************************)
(* A stored reading outside the range the serializer accepts               *)
(***************************************************************************)
\* HeartRateReadingSerializer.validate_bpm rejects these; the column is a
\* plain IntegerField, so a row written past the serializer can hold them
OutOfRange(bpm) == ~(30 <= bpm /\ bpm <= 250)

RangeData(u, k) ==
    CASE k = 1 ->
        [hr |-> <<HeartRateReading(u, 300, "rest", At(2, 480)),
                  HeartRateReading(u, 72, "rest", At(2, 500)),
                  HeartRateReading(u, 68, "rest", At(2, 520))>>,
         sleep |-> <<>>, act |-> <<>>]
      [] k = 2 ->
        [hr |-> <<HeartRateReading(u, 74, "active", At(2, 470)),
                  HeartRateReading(u, 20, "active", At(2, 490))>>,
         sleep |-> <<>>, act |-> <<>>]
      [] OTHER ->
        [hr |-> <<HeartRateReading(u, 260, "workout", At(2, 450)),
                  HeartRateReading(u, 140, "workout", At(2, 455))>>,
         sleep |-> <<>>,
         act |-> <<Activity(u, At(2, 440), "running", "vigorous", 30, 350, Some(4000), Some(150))>>]

InitRange ==
    /\ now \in Nows
    /\ mlayer = "ok"
    /\ forest = [u \in Users |-> {}]
    /\ \E k \in 1..3 : InitStore(RangeData("A", k), Data("B", 3), Data("C", 3), Data("D", 3))

NextRange == RunStep("w1")

SpecRange == InitRange /\ [][NextRange]_vars

(***************************************************************************)
(* Two nights that differ in their share of deep sleep only                *)
(***************************************************************************)
DeepMinutes == {0, 20, 30, 40, 50, 60, 80, 100, 110, 120, 130, 140, 150, 160, 200}

\* the nights of day 1 and day 2: 400 minutes asleep and 20 awake, the same
\* duration, REM minutes and interruptions, deep minutes d1 and d2, the rest
\* of the sleep light
Nights(u, dur, rem, intr, d1, d2) ==
    [hr |-> <<>>,
     sleep |-> <<SleepSession(u, At(1, 970), dur, 20, 400 - rem - d1, d1, rem, intr, None),
                 SleepSession(u, At(2, 100), dur, 20, 400 - rem - d2, d2, rem, intr, None)>>,
     act |-> <<>>]

InitSleep ==
    /\ now = At(2, 960)
    /\ mlayer = "ok"
    /\ forest = [u \in Users |-> {}]
    /\ \E dur \in {420, 540}, rem \in {60, 100}, intr \in {1, 4} :
       \E d1 \in DeepMinutes, d2 \in DeepMinutes :
           /\ d1 < d2
           /\ InitStore(Data("A", 3), Data("B", 3), Nights("C", dur, rem, intr, d1, d2), Data("D", 3))

NextSleep == RunStep("s1") /\ Faultless("s1")

SpecSleep == InitSleep /\ [][NextSleep]_vars

(***************************************************************************)
(* New sleep sessions saved, then scored by the engine                     *)
(***************************************************************************)
InitSave ==
    /\ now = At(2, 960)
    /\ mlayer = "ok"
    /\ forest = [u \in Users |-> {}]
    /\ InitStore(Data("A", 3), Data("B", 3), Data("C", 3), Data("D", 3))

NextSave ==
    \/ CreateSleepSession("s1")
    \/ RunStep("s1") /\ Faultless("s1")

SpecSave == InitSave /\ [][NextSave]_vars

(***************************************************************************)
(* Two hours at rest with two readings of 180 bpm                          *)
(***************************************************************************)
ScenarioReadings == 60

\* sixty readings at rest, two minutes apart: 180 bpm at positions p and
\* p + gap, the others 70 bpm or spread over 65..75
ScenarioWindow(u, p, gap, spread) ==
    [k \in 1..ScenarioReadings |->
        HeartRateReading(u, IF k \in {p, p + gap} THEN 180
                            ELSE IF spread THEN 65 + (k % 11) ELSE 70,
                         "rest", At(2, 400) + 2 * k)]

InitScenario ==
    /\ now = At(2, 600)
    /\ mlayer = "ok"
    /\ \E p \in {5, 20}, gap \in {5, 20}, spread \in BOOLEAN :
           /\ \E M \in {{}, {p, p + gap}, {p, p + gap \div 2, p + gap}} :
                  forest = [u \in Users |-> IF u = "A" THEN M ELSE {}]
           /\ InitStore([hr |-> ScenarioWindow("A", p, gap, spread), sleep |-> <<>>, act |-> <<>>],
                        Data("B", 3), Data("C", 3), Data("D", 3))

NextScenario == DetectAnomalies("w1") \/ DetectHeartRateAnomalies("w1")

SpecScenario == InitScenario /\ [][NextScenario]_vars

(***************************************************************************)
(* The forest's outliers at many distances from each other                 *)
(***************************************************************************)
\* the readings of the window the forest may predict as outliers
OutlierCandidates == {3, 5, 7, 11, 17, 18, 30, 45}
MaxOutliers == 4

\* fifty readings, seven minutes apart
SparseWindow(u) ==
    [k \in 1..MinMLReadings |->
        HeartRateReading(u, IF k \in {5, 7, 30} THEN 150 ELSE IF k = 45 THEN 40 ELSE 70,
                         "active", At(2, 100) + 7 * k)]

InitGroup ==
    /\ now = At(2, 600)
    /\ mlayer = "ok"
    /\ \E M \in SubsetsUpTo(OutlierCandidates, MaxOutliers) :
           forest = [u \in Users |-> IF u = "A" THEN M ELSE {}]
    /\ InitStore([hr |-> SparseWindow("A"), sleep |-> <<>>, act |-> <<>>],
                 Data("B", 3), Data("C", 3), Data("D", 3))

NextGroup == DetectHeartRateAnomalies("w1")

SpecGroup == InitGroup /\ [][NextGroup]_vars

(***************************************************************************)
(* Alerts generated after the statistical detector has flagged readings    *)
(***************************************************************************)
InitDerived ==
    /\ now = At(2, 600)
    /\ mlayer = "ok"
    /\ forest = [u \in Users |-> {}]
    /\ \E n \in {11, 18, 20}, shape \in {"flat", "spike", "dip", "two"}, base \in {60, 72},
          even \in BOOLEAN :
           InitStore(Data("A", 3), Data("B", 3),
                     [hr |-> Window("C", n, shape, base, even), sleep |-> <<>>, act |-> <<>>],
                     Data("D", 3))

NextDerived == DetectAnomalies("s1") \/ CallHealthAlerts("s1")

SpecDerived == InitDerived /\ [][NextDerived]_vars

(***************************************************************************)
(* Resting heart rate: the daily aggregator and calculate_resting_heart_rate *)
(***************************************************************************)
LowestCount == 5

RECURSIVE SortedBpm(_)
\* sorted(bpm_values) for the readings S
SortedBpm(S) ==
    IF S = {} THEN <<>>
    ELSE LET i == CHOOSE x \in S : \A y \in S :
                      hr[x].bpm < hr[y].bpm \/ (hr[x].bpm = hr[y].bpm /\ x <= y)
         IN  <<hr[i].bpm>> \o SortedBpm(S \ {i})

\* np.mean(sorted(bpm_values)[:5])
LowestMean(S) == Mean(SubSeq(SortedBpm(S), 1, LowestCount))

\* HeartRateProcessor.calculate_resting_heart_rate(user, date)['value']: the
\* readings of the day before date, up to midnight, in context sleep or rest
CalculateRestingHeartRate(u, d) ==
    LET R == {i \in Of(hr, u) : /\ hr[i].ts >= At(d - 1, 0)
                                /\ hr[i].ts <= At(d, 0)
                                /\ hr[i].context \in {"sleep", "rest"}}
    IN  IF Cardinality(R) < LowestCount THEN None ELSE Some(Round1(LowestMean(R)))

RestContexts == <<"rest", "sleep", "rest", "active", "sleep", "rest", "sleep">>

\* seven readings today, five or six of them at rest or asleep, and one
\* resting reading yesterday
RestDay(u, B) ==
    [hr |-> [k \in 1..7 |-> HeartRateReading(u, B[k], RestContexts[k], At(2, 60 * k))]
            \o <<HeartRateReading(u, 40, "rest", At(1, 700))>>,
     sleep |-> <<>>, act |-> <<>>]

InitResting ==
    /\ now = At(2, 600)
    /\ mlayer = "ok"
    /\ forest = [u \in Users |-> {}]
    /\ \E B \in [1..7 -> {50, 56, 62}] :
           InitStore(Data("A", 3), Data("B", 3), RestDay("C", B), Data("D", 3))

NextResting == CallUpdateDailySummary("s1")

SpecResting == InitResting /\ [][NextResting]_vars

(***************************************************************************)
(* activity_processor.py: _analyze_intensity                               *)
(***************************************************************************)
ActivityTypes == {"walking", "running", "cycling", "swimming", "hiking", "yoga",
                  "strength_training", "hiit", "dancing", "sports", "workout", "other"}

\* met_values.get(activity_type, 4.0)
BaseMet(type) ==
    CASE type = "walking" -> Rat(35, 10)
      [] type = "running" -> Rat(80, 10)
      [] type = "cycling" -> Rat(75, 10)
      [] type = "swimming" -> Rat(60, 10)
      [] type = "hiking" -> Rat(60, 10)
      [] type = "yoga" -> Rat(25, 10)
      [] type = "strength_training" -> Rat(60, 10)
      [] type = "hiit" -> Rat(85, 10)
      [] type = "dancing" -> Rat(50, 10)
      [] type = "sports" -> Rat(70, 10)
      [] type = "workout" -> Rat(65, 10)
      [] OTHER -> Rat(40, 10)

\* the adjustment for the average heart rate; None and 0 leave it at 1.0
IntensityMultiplier(avg) ==
    IF ~TruthyInt(avg) THEN Rat(10, 10)
    ELSE IF Val(avg) > 160 THEN Rat(13, 10)
    ELSE IF Val(avg) > 140 THEN Rat(12, 10)
    ELSE IF Val(avg) > 120 THEN Rat(11, 10)
    ELSE IF Val(avg) < 100 THEN Rat(9, 10)
    ELSE Rat(10, 10)

\* intensity_level for a MET value
IntensityLevel(met) ==
    IF RLe(RInt(8), met) THEN "vigorous"
    ELSE IF RLe(RInt(6), met) THEN "moderate"
    ELSE IF RLe(RInt(3), met) THEN "light"
    ELSE "very_light"

\* intensity_minutes and intensity_type for a MET value and a duration
IntensityMinutes(met, dur) ==
    IF RLe(RInt(6), met) THEN [intensity_minutes |-> dur * 2, intensity_type |-> "vigorous"]
    ELSE IF RLe(RInt(3), met) THEN [intensity_minutes |-> dur, intensity_type |-> "moderate"]
    ELSE [intensity_minutes |-> 0, intensity_type |-> "light"]

\* ActivityProcessor._analyze_intensity(activity)
AnalyzeIntensity(a) ==
    LET mult == IntensityMultiplier(a.avg_hr)
        met == RMul(BaseMet(a.type), mult)
        m == IntensityMinutes(met, a.duration)
    IN  [met_value |-> Round1(met),
         intensity_level |-> IntensityLevel(met),
         intensity_minutes |-> m.intensity_minutes,
         intensity_type |-> m.intensity_type,
         base_met |-> BaseMet(a.type),
         heart_rate_adjustment |-> mult]

\* ActivityViewSet.analyze for one of the user's activities: the activity and
\* the intensity part of the analysis
AnalyzeActivity(w) ==
    /\ Len(reports) < MaxReports
    /\ \E i \in Of(act, wuser[w]) :
           reports' = Append(reports, [activity |-> act[i],
                                       intensity_analysis |-> AnalyzeIntensity(act[i])])
    /\ UNCHANGED <<goals, fetched, saves, now, mlayer, forest, hr, sleep, act, summaries, insights, alerts, wuser, pc,
                   results, runs, calls, log, detected>>

AvgHeartRates == {None, Some(0), Some(95), Some(100), Some(120), Some(121), Some(141), Some(161)}

\* one activity of any type, or of a type the table does not list
OneActivity(u, type, avg, dur) ==
    [hr |-> <<>>, sleep |-> <<>>,
     act |-> <<Activity(u, At(2, 300), type, "", dur, 200, None, avg)>>]

InitIntensity ==
    /\ now = At(2, 600)
    /\ mlayer = "ok"
    /\ forest = [u \in Users |-> {}]
    /\ \E type \in ActivityTypes \cup {"rowing"}, avg \in AvgHeartRates, dur \in {30, 45} :
           InitStore(Data("A", 3), Data("B", 3), OneActivity("C", type, avg, dur), Data("D", 3))

NextIntensity == AnalyzeActivity("s1")

SpecIntensity == InitIntensity /\ [][NextIntensity]_vars

(***************************************************************************)
(* The daily score over summaries a client has synced                      *)
(***************************************************************************)
\* a DailySummary of today as DailySummarySerializer stores it
SyncedSummary(u, steps, dur, score, rest, rec) ==
    [DailySummary(u, Today) EXCEPT !.total_steps = steps, !.sleep_duration = dur,
                                   !.sleep_score = score, !.resting_hr = rest,
                                   !.recovery_score = rec]

InitScore ==
    /\ now = At(2, 600)
    /\ mlayer = "ok"
    /\ forest = [u \in Users |-> {}]
    /\ hr = <<>> /\ sleep = <<>> /\ act = <<>>
    /\ \E steps \in {0, 4000, 10000, 15000},
          dur \in {None, Some(0), Some(290), Some(330), Some(400), Some(480), Some(570),
                   Some(630), Some(700)},
          score \in {None, Some(RInt(0)), Some(RInt(85))},
          rest \in {None, Some(55), Some(65), Some(75), Some(85)},
          rec \in {None, Some(RInt(0)), Some(RInt(40))} :
           summaries = <<SyncedSummary("C", steps, dur, score, rest, rec)>>
    /\ insights = <<>>
    /\ alerts = <<>>
    /\ wuser = [w \in Workers |-> CASE w = "w1" -> "A" [] w = "w2" -> "B"
                                    [] w = "s1" -> "C" [] OTHER -> "D"]
    /\ pc = IdleWorkers
    /\ results = [w \in Workers |-> EmptyResults]
    /\ runs = [w \in Workers |-> 0]
    /\ calls = [w \in Workers |-> 0]
    /\ log = {}
    /\ detected = <<>>
    /\ reports = <<>>
    /\ saves = <<>>
    /\ fetched = [w \in Workers |-> <<>>]
    /\ goals = <<>>

NextScore == CallDailyInsights("s1")

SpecScore == InitScore /\ [][NextScore]_vars

(***************************************************************************)
(* anomaly_detector.py: the feature matrix of detect_heart_rate_anomalies  *)
(***************************************************************************)
\* AnomalyDetector._context_to_numeric
ContextToNumeric(ctx) ==
    CASE ctx = "rest" -> 0 [] ctx = "active" -> 1 [] ctx = "workout" -> 2
      [] ctx = "recovery" -> 3 [] ctx = "sleep" -> 4 [] OTHER -> 5

\* the basic features of _extract_heart_rate_features for the readings W of
\* table t, in timestamp order: bpm, context, hour of day, day of week
ExtractHeartRateFeatures(t, W) ==
    LET ids == OrderAsc(t, W)
    IN  [k \in DOMAIN ids |->
            <<t[ids[k]].bpm, ContextToNumeric(t[ids[k]].context),
              (t[ids[k]].ts % DayMinutes) \div 60, Weekday(DateOf(t[ids[k]].ts))>>]

\* the matrix call e of detect_heart_rate_anomalies passed to
\* StandardScaler.fit_transform and IsolationForest.fit_predict: none when the
\* window held fewer than 50 readings
FittedFeatures(e) ==
    LET W == InWindow(e.before, e.user, now - 7 * DayMinutes, now)
    IN  IF Cardinality(W) < MinMLReadings THEN <<>> ELSE ExtractHeartRateFeatures(e.before, W)

\* fifty readings: of one bpm or of several, in one context or in two, within
\* one hour or over two days
FeatureWindow(u, flat, onectx, onehour) ==
    [k \in 1..MinMLReadings |->
        HeartRateReading(u, IF flat THEN 70 ELSE 70 + (k % 3),
                         IF onectx \/ k % 2 = 0 THEN "active" ELSE "rest",
                         IF onehour THEN At(2, 300) + k ELSE At(1, 900) + 15 * k)]

InitVariance ==
    /\ now = At(2, 600)
    /\ mlayer = "ok"
    /\ \E M \in SubsetsUpTo({4, 20, 21, 47}, 2) : forest = [u \in Users |-> IF u = "A" THEN M ELSE {}]
    /\ \E flat \in BOOLEAN, onectx \in BOOLEAN, onehour \in BOOLEAN :
           InitStore([hr |-> FeatureWindow("A", flat, onectx, onehour), sleep |-> <<>>, act |-> <<>>],
                     Data("B", 3), Data("C", 3), Data("D", 3))

NextVariance == DetectHeartRateAnomalies("w1")

SpecVariance == InitVariance /\ [][NextVariance]_vars

(***************************************************************************)
(* Windows with ten consecutive readings above or below the others         *)
(***************************************************************************)
InitSustained ==
    /\ now = At(2, 600)
    /\ mlayer = "ok"
    /\ forest = [u \in Users |-> {}]
    /\ \E n \in {20, 50, 51, 55}, shape \in {"flat", "spike", "dip", "block", "lowblock"},
          base \in {60, 72}, even \in BOOLEAN :
           InitStore(Data("A", 3), Data("B", 3),
                     [hr |-> Window("C", n, shape, base, even), sleep |-> <<>>, act |-> <<>>],
                     Data("D", 3))

NextSustained == DetectAnomalies("s1")

SpecSustained == InitSustained /\ [][NextSustained]_vars

(***************************************************************************)
(* Two services of one user running process_recent_data at the same time   *)
(***************************************************************************)
\* the services s1 and s2 both belong to user C; each runs once, no record
\* fails
InitInterleave ==
    /\ now = At(2, 600)
    /\ mlayer = "ok"
    /\ forest = [u \in Users |-> {}]
    /\ \E c \in {1, 2, 5} :
           /\ hr = Data("C", c).hr
           /\ sleep = Data("C", c).sleep
           /\ act = Data("C", c).act
    /\ summaries = <<>>
    /\ insights = <<>>
    /\ alerts = <<>>
    /\ wuser = [w \in Workers |-> CASE w = "w1" -> "A" [] w = "w2" -> "B" [] OTHER -> "C"]
    /\ pc = IdleWorkers
    /\ results = [w \in Workers |-> EmptyResults]
    /\ runs = [w \in Workers |-> 0]
    /\ calls = [w \in Workers |-> 0]
    /\ log = {}
    /\ detected = <<>>
    /\ reports = <<>>
    /\ saves = <<>>
    /\ fetched = [w \in Workers |-> <<>>]
    /\ goals = <<>>

\* one step of a run whose loops are interleaved with another service's
InterleavedStep(w) ==
    \/ StartRun(w)
    \/ FetchReadings(w)
    \/ LoopReadings(w)
    \/ FetchSessions(w)
    \/ LoopSessions(w)
    \/ FetchActivities(w)
    \/ LoopActivities(w)
    \/ InsightsStage(w)
    \/ AlertsStage(w)
    \/ SummaryStage(w)

NextInterleave ==
    \E w \in {"s1", "s2"} : ~Finished(w) /\ InterleavedStep(w) /\ Faultless(w)

SpecInterleave == InitInterleave /\ [][NextInterleave]_vars

(***************************************************************************)
(* Runs in which a stage raises                                            *)
(***************************************************************************)
InitRaise ==
    /\ now \in Nows
    /\ mlayer = "ok"
    /\ forest = [u \in Users |-> {}]
    /\ \E c \in {1, 2, 4, 5} :
           InitStore(Data("A", 3), Data("B", 3), Data("C", c), Data("D", 3))

NextRaise == (RunStep("s1") /\ Faultless("s1")) \/ StageRaises("s1")

SpecRaise == InitRaise /\ [][NextRaise]_vars

(***************************************************************************)
(* Goals tracked day after day                                             *)
(***************************************************************************)
GoalTypes == {"steps", "sleep", "activity", "calories", "weight"}

\* user C has one goal, with a streak on record; user D has a goal too
InitGoal ==
    /\ now = At(2, 960)
    /\ mlayer = "ok"
    /\ forest = [u \in Users |-> {}]
    /\ \E c \in {1, 5} :
           /\ hr = Data("C", c).hr
           /\ sleep = Data("C", c).sleep
           /\ act = Data("C", c).act
    /\ \E type \in GoalTypes, target \in {0, 60, 450, 9000}, lng \in 0..2 :
       \E cur \in 0..lng :
           goals = <<HealthGoal("C", type, target, cur, lng, TRUE),
                     HealthGoal("D", "steps", 0, 0, 0, TRUE)>>
    /\ summaries = <<>>
    /\ insights = <<>>
    /\ alerts = <<>>
    /\ wuser = [w \in Workers |-> CASE w = "w1" -> "A" [] w = "w2" -> "B"
                                    [] w = "s1" -> "C" [] OTHER -> "D"]
    /\ pc = IdleWorkers
    /\ results = [w \in Workers |-> EmptyResults]
    /\ runs = [w \in Workers |-> 0]
    /\ calls = [w \in Workers |-> 0]
    /\ log = {}
    /\ detected = <<>>
    /\ reports = <<>>
    /\ saves = <<>>
    /\ fetched = [w \in Workers |-> <<>>]

NextGoal == TrackHealthGoal("s1") \/ CallUpdateDailySummary("s1")

SpecGoal == InitGoal /\ [][NextGoal]_vars

(***************************************************************************)
(* History                                                                 *)
(***************************************************************************)
Batches == {e \in log : e.op \in BatchOps}
Returns == {e \in log : e.op = "return"}
NoneProcessed == [heart_rate |-> 0, sleep |-> 0, activity |-> 0]

\* the batch loop op of run r of worker w, when it has completed
BatchOf(w, r, op) == {e \in Batches : e.w = w /\ e.run = r /\ e.op = op}

\* the records of kind op whose processing raised in a run of w before run r
FailedBefore(w, r, op) ==
    UNION {e.failed : e \in {x \in Batches : x.w = w /\ x.op = op /\ x.run < r}}

NoFailures(w, r) == \A e \in Batches : (e.w = w /\ e.run <= r) => e.failed = {}

\* C3: when process_recent_data is run again on unchanged input (no entry point
\* called in between, no record failed, neither run ended in the except branch),
\* today's DailySummary after the second run equals the one after the first in
\* every field.
C3_SummaryFixedPoint ==
    \A e1 \in Returns : \A e2 \in Returns :
        (/\ e1.w = e2.w /\ e2.run = e1.run + 1 /\ e1.call = e2.call
         /\ ~e1.error /\ ~e2.error /\ NoFailures(e2.w, e2.run))
            => e2.summary = e1.summary

(***************************************************************************)
(* C4: one DailySummary per user and date                                  *)
(***************************************************************************)
\* C4: there is at most one DailySummary per (user, date) in every reachable
\* state; a step creates at most one summary, and only for a key that had none;
\* no step deletes a summary or changes its key.
C4_OneSummaryPerDay ==
    /\ [](\A i \in DOMAIN summaries : \A j \in DOMAIN summaries :
             (summaries[i].user = summaries[j].user /\ summaries[i].date = summaries[j].date)
                 => i = j)
    /\ [][/\ Len(summaries') \in {Len(summaries), Len(summaries) + 1}
          /\ \A i \in DOMAIN summaries :
                 /\ summaries'[i].user = summaries[i].user
                 /\ summaries'[i].date = summaries[i].date
          /\ Len(summaries') > Len(summaries) =>
                 \A i \in DOMAIN summaries :
                     \/ summaries[i].user # summaries'[Len(summaries')].user
                     \/ summaries[i].date # summaries'[Len(summaries')].date]_vars

\* a run has returned and HealthMetricsView.get and generate_daily_insights have
\* been called for the same user, whose summary of the day is a row
C4_Witness ==
    /\ \E r \in Returns : ~r.error /\ r.w = "w1"
    /\ \E e \in log : e.op = "call_metrics" /\ e.w = "w1"
    /\ \E e \in log : e.op = "call_insights" /\ e.w = "w1"
    /\ \E i \in DOMAIN summaries : summaries[i].user = "A" /\ summaries[i].date = Today

(***************************************************************************)
(* C5: the range of overall_score                                          *)
(***************************************************************************)
\* C5: every overall_score stored in a DailySummary lies within [0, 100].
C5_OverallScoreInRange ==
    \A i \in DOMAIN summaries :
        ~IsNone(summaries[i].overall_score) =>
            (/\ RLe(RInt(0), Val(summaries[i].overall_score))
             /\ RLe(Val(summaries[i].overall_score), RInt(100)))

(***************************************************************************)
(* C7: a record that fails inside a batch                                  *)
(***************************************************************************)
\* the table a batch loop works on
Table(op) == CASE op = "heart_rate" -> hr [] op = "sleep" -> sleep [] OTHER -> act

AllThreeExist(u, d) ==
    /\ \E i \in DOMAIN act : act[i].user = u /\ DateOf(act[i].ts) = d
    /\ \E i \in DOMAIN sleep : sleep[i].user = u /\ DateOf(sleep[i].ts) = d
    /\ \E i \in DOMAIN hr : hr[i].user = u /\ DateOf(hr[i].ts) = d

\* C9: in every reachable state a DailySummary with is_complete set belongs to a
\* user and date for which activity, sleep and heart-rate data all exist; and
\* right after _update_daily_summary has run, the summary of that user's day has
\* is_complete set exactly when all three exist.
C9_CompleteIffAllThree ==
    /\ [](\A i \in DOMAIN summaries :
             summaries[i].is_complete => AllThreeExist(summaries[i].user, summaries[i].date))
    /\ [][\A e \in (log' \ log) :
             e.op \in {"summary", "call_summary"} =>
                 \E i \in DOMAIN summaries' :
                     /\ summaries'[i].user = wuser[e.w]
                     /\ summaries'[i].date = Today
                     /\ summaries'[i].is_complete <=> AllThreeExist(wuser[e.w], Today)]_vars

\* _update_daily_summary has run for a day with all three kinds of data, and
\* the summary of that day is complete
C9_Witness ==
    \E e \in log : \E i \in DOMAIN summaries :
        /\ e.op \in {"summary", "call_summary"}
        /\ summaries[i].user = wuser[e.w] /\ summaries[i].date = Today
        /\ summaries[i].is_complete

(***************************************************************************)
(* C10: what evaluating the alert rules writes                             *)
(***************************************************************************)
AlertOps == {"alerts", "call_alerts"}

Flags(t) == {<<i, t[i].anomaly_type>> : i \in {j \in DOMAIN t : t[j].is_anomaly}}

\* C2: when a detector (HeartRateProcessor.detect_anomalies, or the isolation
\* forest of AnomalyDetector) runs twice in a row for the same user on the same
\* window, the second run returns the same anomalies, in the same groups, as the
\* first, and leaves every reading's flag and anomaly type as the first left
\* them: it flags nothing new and marks nothing a second time.
C2_DetectTwiceSame ==
    \A i \in DOMAIN detected : \A j \in DOMAIN detected :
        (j = i + 1 /\ detected[i].user = detected[j].user /\ detected[i].by = detected[j].by) =>
            /\ detected[j].anomalies = detected[i].anomalies
            /\ detected[j].after = detected[j].before
            /\ Flags(detected[j].after) = Flags(detected[i].after)

\* detect_anomalies has run twice for one user, and its first run flagged a
\* reading that was not flagged before
C2_Witness ==
    /\ Len(detected) = 2
    /\ detected[1].user = detected[2].user
    /\ detected[1].by = "statistics" /\ detected[2].by = "statistics"
    /\ \E k \in DOMAIN detected[1].anomalies : "reading_id" \in DOMAIN detected[1].anomalies[k]
    /\ Flags(detected[1].after) # Flags(detected[1].before)

(***************************************************************************)
(* C6: windows of constant bpm                                             *)
(***************************************************************************)
ZScoreTypes == {"high_heart_rate", "low_heart_rate", "sustained_high_heart_rate"}

\* every reading of user u's window has the same bpm
ConstantWindow(u) ==
    \A k \in DOMAIN DetectWindow(u) :
        hr[DetectWindow(u)[k]].bpm = hr[DetectWindow(u)[1]].bpm

\* C6: when all readings of the window have the same bpm, detect_anomalies
\* returns no anomaly that rests on the mean and standard deviation (no extreme
\* value, no sustained window), every reading's z-score is 0 (nothing is divided
\* by the zero deviation), and no reading is flagged.
C6_ConstantWindowClean ==
    \A k \in DOMAIN detected :
        (detected[k].by = "statistics" /\ ConstantWindow(detected[k].user)) =>
            /\ \A a \in DOMAIN detected[k].anomalies :
                   detected[k].anomalies[a].type \notin ZScoreTypes
            /\ Stats(DetectWindow(detected[k].user)).var = 0
            /\ \A r \in DOMAIN DetectWindow(detected[k].user) :
                   ZScore(hr[DetectWindow(detected[k].user)[r]].bpm,
                          Stats(DetectWindow(detected[k].user))) = <<0, 1>>
            /\ detected[k].after = detected[k].before

\* detect_anomalies has run on a constant window long enough for the sustained
\* test (20 readings or more)
C6_Witness ==
    \E k \in DOMAIN detected :
        /\ detected[k].user = "A" /\ detected[k].by = "statistics"
        /\ ConstantWindow("A")
        /\ Len(DetectWindow("A")) >= MinPatternReadings

(***************************************************************************)
(* C8: runs for different users                                            *)
(***************************************************************************)
\* the rows of table t that user u owns, in key order, without the owner
RowsOf(t, u) ==
    LET ids == SetToSeq({i \in DOMAIN t : t[i].user = u})
    IN  [k \in DOMAIN ids |-> [t[ids[k]] EXCEPT !.user = "-"]]

\* the alert rows of user u, with the reading an alert points at counted from
\* the user's first reading
AlertsOf(u) ==
    LET first == IF Of(hr, u) = {} THEN 1 ELSE SetMin(Of(hr, u))
        rows == RowsOf(alerts, u)
    IN  [k \in DOMAIN rows |->
            [rows[k] EXCEPT !.related_id =
                IF IsNone(@) THEN @ ELSE Some(Val(@) - first)]]

\* everything the store holds for user u
StoreOf(u) ==
    [hr |-> RowsOf(hr, u), sleep |-> RowsOf(sleep, u), act |-> RowsOf(act, u),
     summaries |-> RowsOf(summaries, u), insights |-> RowsOf(insights, u),
     alerts |-> AlertsOf(u)]

\* the step of a service of user u leaves the rows of every other user alone
\* and adds rows of u only
Framed(t, u) ==
    /\ Len(t') >= Len(t)
    /\ \A i \in DOMAIN t : t[i].user # u => t'[i] = t[i]
    /\ \A i \in DOMAIN t' : i > Len(t) => t'[i].user = u

\* C8: a step of process_recent_data for one user changes no reading, sleep
\* session, activity, summary, insight or alert of another user and creates rows
\* of its own user only; and when the concurrent runs for A and B have returned
\* without a failed record, the store holds for A and B exactly what it holds
\* for C and D, whose runs over the same records took place one after the other.
C8_UsersIndependent ==
    /\ [][\A e \in (log' \ log) :
             /\ Framed(hr, wuser[e.w]) /\ Len(hr') = Len(hr)
             /\ Framed(sleep, wuser[e.w]) /\ Len(sleep') = Len(sleep)
             /\ Framed(act, wuser[e.w]) /\ Len(act') = Len(act)
             /\ Framed(summaries, wuser[e.w])
             /\ Framed(insights, wuser[e.w])
             /\ Framed(alerts, wuser[e.w])]_vars
    /\ []((/\ \A w \in Workers : Finished(w)
           /\ \A e \in Batches : e.failed = {})
             => \A u \in {"A", "B"} : StoreOf(u) = StoreOf(Twin(u)))

\* the runs for A and B have returned without a failed record and were
\* interleaved: A's service completed a batch loop in the middle of B's run and
\* B's service one in the middle of A's; the two users hold different records,
\* A has a summary and B has alerts
C8_Witness ==
    /\ \A w \in Workers : Finished(w)
    /\ \A e \in Batches : e.failed = {}
    /\ \E e1 \in Batches : \E e2 \in Batches :
           /\ e1.w = "w1" /\ "w2" \in e1.during
           /\ e2.w = "w2" /\ "w1" \in e2.during
    /\ RowsOf(hr, "B") # RowsOf(hr, "A")
    /\ \E i \in DOMAIN summaries : summaries[i].user = "A"
    /\ \E i \in DOMAIN alerts : alerts[i].user = "B"

RuleEntries(as) == SelectSeq(as, LAMBDA a : "reading_id" \in DOMAIN a)

\* C12: whatever the condition of the outlier layer, the pipeline does not
\* crash: no service fails to load, the heart-rate stage returns its processed
\* count and the anomalies of the rules, and a run that has started goes on
\* through the sleep, activity, insight and alert stages (it ends in the summary
\* stage unless saving an alert raised).
C12_OutlierLayerOptional ==
    /\ \A w \in Workers : pc[w] # "crashed"
    /\ \A e \in log : e.op # "import_error"
    /\ \A e \in Batches : e.ret.processed = Cardinality(e.counted)
    /\ \A r \in Returns :
           /\ \A op \in BatchOps : BatchOf(r.w, r.run, op) # {}
           /\ \E e \in log : e.op = "insights" /\ e.w = r.w /\ e.run = r.run
           /\ \E e \in log : e.op = "alerts" /\ e.w = r.w /\ e.run = r.run
           /\ ~r.error => \E e \in log : e.op = "summary" /\ e.w = r.w /\ e.run = r.run

\* the part of C12 that the code keeps: when detect_heart_rate_anomalies raises,
\* the heart-rate step still counts its readings, adds the anomalies of the
\* rules and no group, flags nothing but what the rules flag, and hands over
\* to the sleep stage
C12_RaiseIsCaught ==
    [][\A e \in (log' \ log) :
          (e.op = "heart_rate" /\ mlayer = "broken") =>
              /\ pc'[e.w] = "sleep"
              /\ results'[e.w].processed.heart_rate = Cardinality(e.counted)
              /\ results'[e.w].anomalies =
                     results[e.w].anomalies \o RuleAnomalies(hr, OrderDesc(hr, e.counted))
              /\ \A i \in DOMAIN hr :
                     hr'[i] = IF i \in e.counted THEN ProcessReading(hr[i]) ELSE hr[i]]_vars

\* with a broken outlier layer a run over fifty readings has returned without
\* error and has reported an anomaly of the rules
C12_RaiseWitness ==
    /\ mlayer = "broken"
    /\ Cardinality(Of(hr, "A")) >= MinMLReadings
    /\ \E r \in Returns : ~r.error /\ r.processed.heart_rate > 0
    /\ \E w \in Workers : RuleEntries(results[w].anomalies) # <<>>


\* the values each statistic of analyze_health_trends is computed from
TrendInput(u) ==
    LET ids == TrendSummaries(u)
    IN  [steps |-> Series(ids, LAMBDA r : RInt(r.total_steps), LAMBDA r : TRUE),
         sleep_duration |-> Series(ids, LAMBDA r : RInt(Val(r.sleep_duration)),
                                   LAMBDA r : r.sleep_duration # None),
         heart_rate |-> Series(ids, LAMBDA r : Val(r.avg_hr), LAMBDA r : r.avg_hr # None),
         overall_score |-> Series(ids, LAMBDA r : Val(r.overall_score),
                                  LAMBDA r : r.overall_score # None)]
ConsistencyInput(u) ==
    LET ids == TrendSummaries(u)
    IN  [steps |-> Series(ids, LAMBDA r : r.total_steps, LAMBDA r : r.total_steps # 0),
         sleep |-> Series(ids, LAMBDA r : Val(r.sleep_duration),
                          LAMBDA r : TruthyInt(r.sleep_duration))]
IsHealthReport(r) == "trends" \in DOMAIN r
IsHeartReport(r) == "total_readings" \in DOMAIN r

\* C13: whenever a metric has 0 or 1 values, no analysis reports a number for
\* it: its trend is the insufficient_data status, its consistency entry
\* carries no score or interpretation, and the heart-rate trend of a single
\* reading is "insufficient_data".  (The store does not change while the
\* analyses run, so the inputs are read from the current state.)
C13_FewPointsInsufficient ==
    \A k \in DOMAIN reports :
        LET r == reports[k] IN
        /\ IsHealthReport(r) =>
              /\ \A m \in DOMAIN r.trends :
                    Len(TrendInput(r.user)[m]) < 2 =>
                        r.trends[m] = [status |-> "insufficient_data",
                                       count |-> Len(TrendInput(r.user)[m])]
              /\ \A c \in {"steps", "sleep"} :
                    (Len(ConsistencyInput(r.user)[c]) < 2 /\ c \in DOMAIN r.consistency) =>
                        "interpretation" \notin DOMAIN r.consistency[c]
        /\ (IsHeartReport(r) /\ r.total_readings = 1) =>
              r.trend_analysis.direction = "insufficient_data"

\* the part of C13 that is about the two regressions
C13_TrendsTolerate ==
    \A k \in DOMAIN reports :
        LET r == reports[k] IN
        /\ IsHealthReport(r) =>
              \A m \in DOMAIN r.trends :
                    Len(TrendInput(r.user)[m]) < 2 =>
                        r.trends[m] = [status |-> "insufficient_data",
                                       count |-> Len(TrendInput(r.user)[m])]
        /\ (IsHeartReport(r) /\ r.total_readings = 1) =>
              r.trend_analysis.direction = "insufficient_data"

\* a metric with one value and a metric with none have both been analysed
C13_TrendsWitness ==
    \E k \in DOMAIN reports :
        /\ IsHealthReport(reports[k])
        /\ Len(TrendInput("A").steps) = 1
        /\ Len(TrendInput("A").sleep_duration) = 0
        /\ \E j \in DOMAIN reports : IsHeartReport(reports[j]) /\ reports[j].total_readings = 1

(***************************************************************************)
(* C14: a reading outside [30, 250] in a batch                             *)
(***************************************************************************)
\* C14 as stated: the heart-rate loop skips a reading whose bpm is outside
\* [30, 250] -- it is not counted, its processed_at stays NULL and it is not
\* flagged -- and no daily summary's minimum or maximum heart rate comes from
\* such a reading.
C14_OutOfRangeSkipped ==
    /\ [][\A e \in (log' \ log) :
             e.op = "heart_rate" =>
                 \A i \in e.batch :
                     OutOfRange(hr[i].bpm) =>
                         /\ i \notin e.counted
                         /\ ~hr'[i].processed
                         /\ ~hr'[i].is_anomaly]_vars
    /\ [](\A i \in DOMAIN summaries :
             /\ summaries[i].max_hr # None => ~OutOfRange(Val(summaries[i].max_hr))
             /\ summaries[i].min_hr # None => ~OutOfRange(Val(summaries[i].min_hr)))

(***************************************************************************)
(* C15: a flag, once set                                                   *)
(***************************************************************************)
\* C15 as stated: a reading that carries an anomaly flag keeps it, with the
\* same anomaly_type, through every later step of the rule-based pass, the
\* statistical detector and the model-based detector.
C15_FlagNeverMutated ==
    [][\A i \in DOMAIN hr :
          hr[i].is_anomaly =>
              /\ hr'[i].is_anomaly
              /\ hr'[i].anomaly_type = hr[i].anomaly_type]_vars

\* the part of C15 that the code keeps: no step clears a flag
C15_FlagNeverCleared ==
    [][\A i \in DOMAIN hr : hr[i].is_anomaly => hr'[i].is_anomaly]_vars

\* both detectors have run on a window in which a reading is flagged
C15_ClearedWitness ==
    /\ \E k \in DOMAIN detected : detected[k].by = "statistics"
    /\ \E k \in DOMAIN detected : detected[k].by = "forest"
    /\ \E i \in DOMAIN hr : hr[i].is_anomaly

(***************************************************************************)
(* C16: the direction of a trend                                           *)
(***************************************************************************)
NoisyFlatSteps == <<RInt(4000), RInt(4200), RInt(3900), RInt(4100), RInt(4050)>>

\* C16: for every metric of a trend report with two values or more, the
\* direction is "increasing" or "decreasing" exactly when the R^2 of the linear
\* fit is above 0.3 (with the sign of the slope), and "stable" when R^2 is at
\* most 0.3; the steps series 4000, 4200, 3900, 4100, 4050 is "stable".
C16_DirectionNeedsFit ==
    \A k \in DOMAIN reports :
        LET r == reports[k] IN
        IsHealthReport(r) =>
            \A m \in DOMAIN r.trends :
                LET vals == TrendInput(r.user)[m] IN
                Len(vals) >= 2 =>
                    /\ r.trends[m].trend_direction \in {"increasing", "decreasing", "stable"}
                    /\ r.trends[m].trend_direction \in {"increasing", "decreasing"}
                           <=> RLt(Rat(3, 10), RSquared(vals))
                    /\ r.trends[m].trend_direction = "increasing" => Slope(vals)[1] > 0
                    /\ r.trends[m].trend_direction = "decreasing" => Slope(vals)[1] < 0
                    /\ vals = NoisyFlatSteps => r.trends[m].trend_direction = "stable"

\* the noisy flat series has been reported as stable, next to a heart-rate
\* series that has a direction
C16_Witness ==
    \E k \in DOMAIN reports :
        /\ IsHealthReport(reports[k])
        /\ TrendInput("A").steps = NoisyFlatSteps
        /\ reports[k].trends.steps.trend_direction = "stable"
        /\ Len(TrendInput("A").heart_rate) >= 2
        /\ reports[k].trends.heart_rate.trend_direction = "decreasing"

(***************************************************************************)
(* C17: the sleep score against the share of deep sleep                    *)
(***************************************************************************)
\* sessions a and b have been scored by the sleep loop and agree in duration,
\* efficiency, REM percentage and interruptions
SameButDeep(a, b) ==
    /\ a.processed /\ b.processed
    /\ a.quality # None /\ b.quality # None
    /\ a.duration = b.duration
    /\ a.efficiency = b.efficiency
    /\ rem_sleep_percentage(a) = rem_sleep_percentage(b)
    /\ a.interruptions = b.interruptions

\* C17: of two scored sessions that differ only in their deep-sleep percentage,
\* the one with the higher percentage has the score at least as high when both
\* percentages are at most 25, and at most as high when both are at least 15.
C17_UnimodalInDeepSleep ==
    \A i \in DOMAIN sleep : \A j \in DOMAIN sleep :
        (/\ SameButDeep(sleep[i], sleep[j])
         /\ RLe(deep_sleep_percentage(sleep[i]), deep_sleep_percentage(sleep[j])))
        => /\ RLe(deep_sleep_percentage(sleep[j]), RInt(25))
                  => RLe(Val(sleep[i].quality), Val(sleep[j].quality))
           /\ RLe(RInt(15), deep_sleep_percentage(sleep[i]))
                  => RLe(Val(sleep[j].quality), Val(sleep[i].quality))

\* two such sessions have been scored, one with less than 5% of deep sleep and
\* one between 10% and 15%, the second with the higher score
C17_Witness ==
    \E i \in DOMAIN sleep : \E j \in DOMAIN sleep :
        /\ SameButDeep(sleep[i], sleep[j])
        /\ RLt(deep_sleep_percentage(sleep[i]), RInt(5))
        /\ RLe(RInt(10), deep_sleep_percentage(sleep[j]))
        /\ RLt(deep_sleep_percentage(sleep[j]), RInt(15))
        /\ RLt(Val(sleep[i].quality), Val(sleep[j].quality))

(***************************************************************************)
(* C18: a session saved with its stage minutes only                        *)
(***************************************************************************)
\* only the stage minutes (and the interruptions) of the form are given
StagesOnly(f) ==
    f.start = None /\ f.end = None /\ f.duration = None /\ f.efficiency = None

\* C18 as stated: the save of a session that has only its stage minutes does
\* not raise and leaves duration_minutes = awake + light + deep + rem and, when
\* that sum is positive, sleep_efficiency = (light + deep + rem) / duration * 100.
C18_StagesGiveDuration ==
    \A k \in DOMAIN saves :
        LET f == saves[k].form
            d == f.awake + f.light + f.deep + f.rem
        IN  StagesOnly(f) =>
                /\ saves[k].result.raised = ""
                /\ saves[k].result.duration = Some(d)
                /\ d > 0 => saves[k].result.efficiency
                                = Some(Rat((f.light + f.deep + f.rem) * 100, d))

\* what save does with such a session: it raises, and nothing is stored
C18_StagesOnlyRaises ==
    \A k \in DOMAIN saves :
        StagesOnly(saves[k].form) =>
            /\ saves[k].result.raised = "TypeError"
            /\ saves[k].row = 0

\* a session with stage minutes only and a complete one have been saved
C18_RaisesWitness ==
    /\ \E k \in DOMAIN saves : StagesOnly(saves[k].form) /\ saves[k].form.light > 0
    /\ \E k \in DOMAIN saves : saves[k].result.raised = "" /\ saves[k].row \in DOMAIN sleep

(***************************************************************************)
(* C20: the score of a good night                                          *)
(***************************************************************************)
\* the session of the scenario: 420 minutes, 90 deep, 100 REM, 210 light,
\* 20 awake, one interruption, efficiency 95
GoodNight(s) ==
    /\ s.duration = 420 /\ s.deep = 90 /\ s.rem = 100 /\ s.light = 210 /\ s.awake = 20
    /\ s.interruptions = 1 /\ s.efficiency = Some(RInt(95))

\* C20: the computed score of every stored session of the scenario is at least
\* 85, and once the sleep loop has scored it the session carries that score
\* and the category "excellent".
C20_GoodNightExcellent ==
    \A i \in DOMAIN sleep :
        GoodNight(sleep[i]) =>
            /\ RLe(RInt(85), CalculateSleepScore(sleep[i]))
            /\ sleep[i].processed =>
                  /\ sleep[i].quality = Some(CalculateSleepScore(sleep[i]))
                  /\ sleep[i].category = "excellent"

\* the session of the scenario has been saved and scored
C20_Witness ==
    \E i \in DOMAIN sleep :
        GoodNight(sleep[i]) /\ sleep[i].processed /\ sleep[i].quality = Some(RInt(100))

(***************************************************************************)
(* C19: two readings of 180 bpm in two hours at rest                       *)
(***************************************************************************)
\* user u's window is the one of the scenario
Scenario(u) ==
    LET W == DetectWindow(u)
        R == {W[k] : k \in DOMAIN W}
    IN  /\ Len(W) = ScenarioReadings
        /\ \A i \in R : hr[i].context = "rest"
        /\ Cardinality({i \in R : hr[i].bpm = 180}) = 2
        /\ \A i \in R : hr[i].bpm # 180 => (65 <= hr[i].bpm /\ hr[i].bpm <= 75)
Peaks(u) == {i \in Of(hr, u) : hr[i].bpm = 180}

\* the point anomalies a call has returned for reading i
PointsOf(d, i) ==
    {a \in DOMAIN d.anomalies :
        "reading_id" \in DOMAIN d.anomalies[a] /\ d.anomalies[a].reading_id = i}

\* C19 as stated: on the scenario's window detect_anomalies returns for each
\* of the two 180-bpm readings one point anomaly of severity "high", and the
\* grouping puts the two into one group only if they are at most 30 minutes
\* apart.
C19_PeaksHighAndGrouped ==
    \A k \in DOMAIN detected :
        LET d == detected[k] IN
        Scenario(d.user) =>
            /\ d.by = "statistics" =>
                  \A i \in Peaks(d.user) :
                      /\ Cardinality(PointsOf(d, i)) = 1
                      /\ \A a \in PointsOf(d, i) :
                             /\ d.anomalies[a].type = "high_heart_rate"
                             /\ d.anomalies[a].severity = "high"
            /\ d.by = "forest" =>
                  \A g \in DOMAIN d.anomalies :
                      \A i \in Peaks(d.user) : \A j \in Peaks(d.user) :
                          LET G == {d.anomalies[g].members[m] : m \in DOMAIN d.anomalies[g].members}
                          IN  (i \in G /\ j \in G) => Abs(hr[i].ts - hr[j].ts) <= GroupThreshold

\* what detect_anomalies returns for the two readings: one point anomaly each,
\* of type high_heart_rate and severity "critical"
C19_PeaksCritical ==
    \A k \in DOMAIN detected :
        LET d == detected[k] IN
        (Scenario(d.user) /\ d.by = "statistics") =>
            \A i \in Peaks(d.user) :
                /\ Cardinality(PointsOf(d, i)) = 1
                /\ \A a \in PointsOf(d, i) :
                       /\ d.anomalies[a].type = "high_heart_rate"
                       /\ d.anomalies[a].severity = "critical"

\* both detectors have run on the scenario's window
C19_CriticalWitness ==
    /\ Scenario("A")
    /\ \E k \in DOMAIN detected : detected[k].by = "statistics" /\ detected[k].anomalies # <<>>
    /\ \E k \in DOMAIN detected : detected[k].by = "forest" /\ detected[k].anomalies # <<>>

(***************************************************************************)
(* C21: the groups of _group_anomalies                                     *)
(***************************************************************************)
MembersOf(g) == {g.members[m] : m \in DOMAIN g.members}

\* C21: in every list of groups detect_heart_rate_anomalies has returned, the
\* groups partition the readings the forest flagged, two flagged readings at
\* most 30 minutes apart are in the same group, and each later group starts
\* more than 30 minutes after the end of the group before it.
C21_GroupsByThirtyMinutes ==
    \A k \in DOMAIN detected :
        LET d == detected[k]
            F == forest[d.user] \cap InWindow(hr, d.user, now - 7 * DayMinutes, now)
        IN  d.by = "forest" =>
                /\ \A i \in F : Cardinality({g \in DOMAIN d.anomalies :
                                     i \in MembersOf(d.anomalies[g])}) = 1
                /\ \A g \in DOMAIN d.anomalies :
                       /\ MembersOf(d.anomalies[g]) \subseteq F
                       /\ Len(d.anomalies[g].members) = Cardinality(MembersOf(d.anomalies[g]))
                /\ \A i \in F : \A j \in F :
                       Abs(hr[i].ts - hr[j].ts) <= GroupThreshold =>
                           \E g \in DOMAIN d.anomalies :
                               {i, j} \subseteq MembersOf(d.anomalies[g])
                /\ \A g \in DOMAIN d.anomalies :
                       g > 1 => d.anomalies[g].start_time - d.anomalies[g - 1].end_time
                                    > GroupThreshold

\* a call has returned two groups, the first of three readings of which the
\* last is more than 30 minutes after the first
C21_Witness ==
    \E k \in DOMAIN detected :
        /\ detected[k].by = "forest"
        /\ Len(detected[k].anomalies) = 2
        /\ detected[k].anomalies[1].anomaly_count = 3
        /\ detected[k].anomalies[1].end_time - detected[k].anomalies[1].start_time
               > GroupThreshold

(***************************************************************************)
(* C22: the severity of an alert derived from a flagged reading            *)
(***************************************************************************)
\* the stored alerts that _check_recent_anomalies derived from a reading
DerivedAlerts ==
    {a \in DOMAIN alerts : alerts[a].title = "Heart Rate Anomaly Detected"
                           /\ alerts[a].related_id # None}

\* C22 as stated: an alert derived from a flagged reading has the severity the
\* detector gave to that reading's anomaly.
C22_SeverityInherited ==
    \A a \in DerivedAlerts :
        \A k \in DOMAIN detected :
            \A p \in PointsOf(detected[k], Val(alerts[a].related_id)) :
                alerts[a].severity = detected[k].anomalies[p].severity

\* what the code does: every such alert is of severity "medium"
C22_DerivedAreMedium ==
    \A a \in DerivedAlerts : alerts[a].severity = "medium"

\* an alert has been derived from a reading the detector graded "critical"
C22_MediumWitness ==
    \E a \in DerivedAlerts :
        \E k \in DOMAIN detected :
            \E p \in PointsOf(detected[k], Val(alerts[a].related_id)) :
                detected[k].anomalies[p].severity = "critical"

(***************************************************************************)
(* C23                                                                     *)
(***************************************************************************)
\* today's readings of user u in context rest or sleep
RestingToday(u) == {i \in OnDate(hr, u, Today) : hr[i].context \in {"rest", "sleep"}}

\* the summaries of today that the aggregator has saved for a user with at
\* least five resting readings today
RestingSummaries ==
    {k \in DOMAIN summaries : /\ summaries[k].date = Today
                              /\ Cardinality(RestingToday(summaries[k].user)) >= LowestCount}

\* C23: the resting heart rate the daily aggregator stores on a DailySummary
\* is the mean of the five lowest bpm values among that date's readings with
\* context "rest" or "sleep"
C23_RestingIsMeanOfLowest ==
    \A k \in RestingSummaries :
        /\ ~IsNone(summaries[k].resting_hr)
        /\ RInt(Val(summaries[k].resting_hr)) = LowestMean(RestingToday(summaries[k].user))

\* C23, as the code behaves: the aggregator stores the single lowest bpm among
\* that date's readings with context "rest" or "sleep"
C23_RestingIsLowest ==
    \A k \in RestingSummaries :
        summaries[k].resting_hr = MinBpm(RestingToday(summaries[k].user))

\* a saved summary whose stored resting heart rate is below the mean of the
\* five lowest resting readings
C23_LowestWitness ==
    \E k \in RestingSummaries :
        /\ ~IsNone(summaries[k].resting_hr)
        /\ RLt(RInt(Val(summaries[k].resting_hr)), LowestMean(RestingToday(summaries[k].user)))

(***************************************************************************)
(* C24                                                                     *)
(***************************************************************************)
IsIntensityReport(r) == "intensity_analysis" \in DOMAIN r

\* C24: an activity's intensity minutes are twice its duration if and only if
\* the activity is classified as vigorous (adjusted MET at least 8)
C24_DoubleIffVigorous ==
    \A k \in DOMAIN reports :
        IsIntensityReport(reports[k]) =>
            (reports[k].intensity_analysis.intensity_minutes = 2 * reports[k].activity.duration
                <=> reports[k].intensity_analysis.intensity_level = "vigorous")

\* C24, as the code behaves: the minutes are doubled if and only if the
\* activity is classified as vigorous or as moderate (adjusted MET at least 6)
C24_DoubleIffAtLeastModerate ==
    \A k \in DOMAIN reports :
        IsIntensityReport(reports[k]) =>
            (reports[k].intensity_analysis.intensity_minutes = 2 * reports[k].activity.duration
                <=> reports[k].intensity_analysis.intensity_level \in {"vigorous", "moderate"})

\* an activity classified as moderate whose minutes were doubled
C24_ModerateDoubledWitness ==
    \E k \in DOMAIN reports :
        /\ IsIntensityReport(reports[k])
        /\ reports[k].intensity_analysis.intensity_level = "moderate"
        /\ reports[k].intensity_analysis.intensity_type = "vigorous"
        /\ reports[k].intensity_analysis.intensity_minutes = 2 * reports[k].activity.duration

(***************************************************************************)
(* C25                                                                     *)
(***************************************************************************)
\* the score for sleeping m minutes
DurationBucket(m) ==
    IF 420 <= m /\ m <= 540 THEN RInt(90)
    ELSE IF (360 <= m /\ m < 420) \/ (540 < m /\ m <= 600) THEN RInt(70)
    ELSE IF (300 <= m /\ m < 360) \/ (600 < m /\ m <= 660) THEN RInt(50)
    ELSE RInt(30)

\* the score for a resting heart rate r
RestingBucket(r) ==
    IF r < 60 THEN RInt(90) ELSE IF r < 70 THEN RInt(80) ELSE IF r < 80 THEN RInt(70) ELSE RInt(50)

\* the weighted score of a summary, each sub-score from its direct value when
\* the summary has one and from its fallback when the value is missing
ScoreFromDirectValues(ds) ==
    LET activity == RMin(RInt(100), Rat(ds.total_steps * 100, StepGoal))
        sleepS == IF ~IsNone(ds.sleep_score) THEN Val(ds.sleep_score)
                  ELSE IF ~IsNone(ds.sleep_duration) THEN DurationBucket(Val(ds.sleep_duration))
                  ELSE RInt(50)
        heart == IF ~IsNone(ds.resting_hr) THEN RestingBucket(Val(ds.resting_hr)) ELSE RInt(70)
        recovery == IF ~IsNone(ds.recovery_score) THEN Val(ds.recovery_score) ELSE RInt(75)
    IN  Round1(RAdd(RAdd(RMul(Rat(35, 100), activity), RMul(Rat(35, 100), sleepS)),
                    RAdd(RMul(Rat(20, 100), heart), RMul(Rat(10, 100), recovery))))

\* C25: the daily health score is 0.35 activity + 0.35 sleep + 0.20 heart +
\* 0.10 recovery, each sub-score taken from its direct value whenever the
\* summary has one and from its fallback only when the value is missing
C25_ScoreUsesDirectValues ==
    \A k \in DOMAIN summaries :
        ~IsNone(summaries[k].overall_score) =>
            Val(summaries[k].overall_score) = ScoreFromDirectValues(summaries[k])

\* C25 for summaries none of whose direct values is zero
C25_ScoreOfNonZeroValues ==
    \A k \in DOMAIN summaries :
        /\ ~IsNone(summaries[k].overall_score)
        /\ summaries[k].sleep_score # Some(RInt(0))
        /\ summaries[k].sleep_duration # Some(0)
        /\ summaries[k].recovery_score # Some(RInt(0))
        => Val(summaries[k].overall_score) = ScoreFromDirectValues(summaries[k])

\* a scored summary with a sleep score of 0 whose score is above the one its
\* direct values give
C25_ZeroScoreWitness ==
    \E k \in DOMAIN summaries :
        /\ ~IsNone(summaries[k].overall_score)
        /\ summaries[k].sleep_score = Some(RInt(0))
        /\ RLt(ScoreFromDirectValues(summaries[k]), Val(summaries[k].overall_score))

(***************************************************************************)
(* C26                                                                     *)
(***************************************************************************)
\* column c of the feature matrix m holds one value only
ZeroVariance(m, c) == \A i \in DOMAIN m : m[i][c] = m[1][c]

\* C26: no call of the model-based heart-rate detection has passed a feature
\* matrix with a zero-variance column to standardisation and to the model fit
C26_VarianceCheckedBeforeFit ==
    \A k \in DOMAIN detected :
        detected[k].by = "forest" /\ FittedFeatures(detected[k]) # <<>> =>
            \A c \in 1..4 : ~ZeroVariance(FittedFeatures(detected[k]), c)

\* C26, as the code behaves: whatever the variance of the columns, the
\* readings the fitted model predicts as outliers are flagged 'ml_detected'
C26_FitWhateverTheVariance ==
    \A k \in DOMAIN detected :
        detected[k].by = "forest" /\ FittedFeatures(detected[k]) # <<>> =>
            \A i \in forest[detected[k].user] :
                i \in InWindow(detected[k].before, detected[k].user, now - 7 * DayMinutes, now) =>
                    /\ detected[k].after[i].is_anomaly
                    /\ detected[k].after[i].anomaly_type = "ml_detected"

\* a call whose matrix had one bpm in every row and that returned anomalies
\* of the model
C26_FlatFitWitness ==
    \E k \in DOMAIN detected :
        /\ detected[k].by = "forest"
        /\ FittedFeatures(detected[k]) # <<>>
        /\ ZeroVariance(FittedFeatures(detected[k]), 1)
        /\ detected[k].anomalies # <<>>

(***************************************************************************)
(* C27                                                                     *)
(***************************************************************************)
\* the mean of the ten readings from position i deviates from the mean of the
\* window by at least two standard deviations, upwards or downwards
SustainedDeviation(ids, st, i) ==
    LET B == [k \in 1..PatternWindow |-> hr[ids[i + k - 1]].bpm]
        d == st.n * SumSeq(B) - PatternWindow * st.sum
    IN  d * d >= 4 * PatternWindow * PatternWindow * st.var

\* the sustained anomalies in a list of anomalies
SustainedOf(as) ==
    {k \in DOMAIN as : as[k].type \in {"sustained_high_heart_rate", "sustained_low_heart_rate"}}

\* the positions of the window of user u at which ten readings start
SubWindows(u) ==
    IF Len(DetectWindow(u)) < PatternWindow THEN {}
    ELSE 1..(Len(DetectWindow(u)) - PatternWindow + 1)

\* C27: every call of the statistical layer has reported at most one sustained
\* anomaly; it has reported one whenever ten consecutive readings of its
\* window have a mean at least two standard deviations above or below the
\* mean of the window, and the one it reports is the earliest such run
C27_SustainedEitherDirection ==
    \A k \in DOMAIN detected :
        LET e == detected[k]
            ids == DetectWindow(e.user)
            dev == {i \in SubWindows(e.user) : SustainedDeviation(ids, Stats(ids), i)}
            S == SustainedOf(e.anomalies)
        IN  e.by = "statistics" =>
                /\ Cardinality(S) <= 1
                /\ dev = {} => S = {}
                /\ dev # {} => \E a \in S : e.anomalies[a].start_time = hr[ids[SetMin(dev)]].ts

\* C27, as the code behaves: at most one sustained anomaly, reported exactly
\* when the window has 20 readings or more and ten consecutive readings have
\* a mean more than two standard deviations above the mean of the window;
\* it is the earliest such run
C27_SustainedHighOnly ==
    \A k \in DOMAIN detected :
        LET e == detected[k]
            ids == DetectWindow(e.user)
            high == {i \in SubWindows(e.user) :
                        Len(ids) >= MinPatternReadings /\ SustainedHigh(ids, Stats(ids), i)}
            S == SustainedOf(e.anomalies)
        IN  e.by = "statistics" =>
                /\ Cardinality(S) <= 1
                /\ high = {} => S = {}
                /\ high # {} => \E a \in S : /\ e.anomalies[a].start_time = hr[ids[SetMin(high)]].ts
                                             /\ e.anomalies[a].type = "sustained_high_heart_rate"

\* a call on a window in which ten consecutive readings lie more than two
\* standard deviations below the mean has reported no sustained anomaly
C27_LowRunWitness ==
    \E k \in DOMAIN detected :
        LET e == detected[k]
            ids == DetectWindow(e.user)
        IN  /\ e.by = "statistics"
            /\ Stats(ids).var > 0
            /\ \E i \in SubWindows(e.user) :
                   /\ SustainedDeviation(ids, Stats(ids), i)
                   /\ ~SustainedHighOrEqual(ids, Stats(ids), i)
            /\ SustainedOf(e.anomalies) = {}

(***************************************************************************)
(* C28                                                                     *)
(***************************************************************************)
\* the insights of user u with title t
InsightsTitled(u, t) == {k \in DOMAIN insights : insights[k].user = u /\ insights[k].title = t}

\* C28: of two runs of process_recent_data for the same user, at most one has
\* counted a given reading, sleep session or activity, and the batch loops
\* have created at most one insight for each sleep session and each activity
C28_CountedByOneRun ==
    /\ \A e1 \in Batches : \A e2 \in Batches :
           (e1.op = e2.op /\ wuser[e1.w] = wuser[e2.w] /\ <<e1.w, e1.run>> # <<e2.w, e2.run>>)
               => e1.counted \cap e2.counted = {}
    /\ \A u \in Users :
           /\ Cardinality(InsightsTitled(u, "Poor Sleep Quality")) <= Cardinality(Of(sleep, u))
           /\ Cardinality(InsightsTitled(u, "Intense Workout Completed")) <= Cardinality(Of(act, u))

\* two runs of one user have both counted the same activity, and two insights
\* exist for the user's one intense workout
C28_TwiceWitness ==
    /\ \E e1 \in Batches : \E e2 \in Batches :
           /\ e1.op = "activity" /\ e2.op = "activity" /\ e1.w # e2.w
           /\ wuser[e1.w] = wuser[e2.w]
           /\ e1.counted \cap e2.counted # {}
    /\ \E u \in Users :
           Cardinality(InsightsTitled(u, "Intense Workout Completed")) > Cardinality(Of(act, u))

(***************************************************************************)
(* C29                                                                     *)
(***************************************************************************)
StageOrder == <<"heart_rate", "sleep", "activity", "insights", "alerts", "summary">>
StageIndex(st) == CHOOSE k \in DOMAIN StageOrder : StageOrder[k] = st

\* the stages raised in
Raises == {e \in log : e.op = "raise"}

\* the number of records the batch loop op of run r of w counted; 0 when the
\* loop has not run
CountedIn(w, r, op) ==
    IF BatchOf(w, r, op) = {} THEN 0
    ELSE Cardinality((CHOOSE e \in BatchOf(w, r, op) : TRUE).counted)

\* C29: process_recent_data never raises.  When a stage has failed, the run
\* has returned its result with an error entry; the result keeps the counts
\* and the anomalies of the stages completed before, and no stage after the
\* failing one has run
C29_ErrorKeepsCompletedStages ==
    /\ \A w \in Workers : pc[w] # "crashed"
    /\ \A x \in Raises :
           /\ \E r \in Returns : r.w = x.w /\ r.run = x.run /\ r.error
           /\ \A r \in Returns :
                  (r.w = x.w /\ r.run = x.run) =>
                      /\ r.error
                      /\ \A op \in BatchOps : r.processed[op] = CountedIn(x.w, x.run, op)
                      /\ \A op \in BatchOps :
                             StageIndex(op) >= StageIndex(x.stage) => r.processed[op] = 0
           /\ \A e \in log :
                  (e.op \in RunStages /\ e.w = x.w /\ e.run = x.run)
                      => StageIndex(e.op) < StageIndex(x.stage)
    /\ \A w \in Workers :
           (pc[w] = "idle" /\ runs[w] >= 1 /\ results[w].error) =>
               /\ \A op \in BatchOps : results[w].processed[op] = CountedIn(w, runs[w], op)
               /\ \A e \in BatchOf(w, runs[w], "heart_rate") :
                      results[w].anomalies = RuleAnomalies(hr, OrderDesc(hr, e.counted))
               /\ BatchOf(w, runs[w], "heart_rate") = {} => results[w].anomalies = <<>>

\* a run has failed in its insights stage after it counted a reading it
\* flagged, a sleep session and an activity, and it has returned them
C29_Witness ==
    \E x \in Raises :
        /\ x.stage = "insights"
        /\ pc[x.w] = "idle" /\ runs[x.w] = x.run
        /\ results[x.w].error
        /\ results[x.w].anomalies # <<>>
        /\ results[x.w].processed.heart_rate > 0
        /\ results[x.w].processed.sleep > 0
        /\ results[x.w].processed.activity > 0

(***************************************************************************)
(* C30                                                                     *)
(***************************************************************************)
StreaksOrdered(g) == g.longest_streak >= g.current_streak /\ g.current_streak >= 0

\* the calls of track_health_goal that found their goal
Tracked == {e \in log : e.op = "track" /\ "goal_met" \in DOMAIN e.ret}

\* C30: every step keeps longest_streak >= current_streak >= 0 for a goal that
\* had it, never lowers longest_streak, and leaves current_streak at 0 when it
\* is a call of track_health_goal in which the goal was not met
C30_StreaksKept ==
    [][/\ \A id \in DOMAIN goals :
              /\ StreaksOrdered(goals[id]) => StreaksOrdered(goals'[id])
              /\ goals'[id].longest_streak >= goals[id].longest_streak
       /\ \A e \in (Tracked' \ Tracked) :
              ~e.ret.goal_met => goals'[e.goal].current_streak = 0 /\ e.ret.current_streak = 0]_vars

\* a goal tracked on a day it was met, raising the longest streak, and on a
\* day it was not met, which set the current streak back to 0
C30_Witness ==
    /\ \E e \in Tracked : e.ret.goal_met /\ e.ret.current_streak = 3 /\ e.ret.longest_streak = 3
    /\ \E e \in Tracked : ~e.ret.goal_met /\ e.ret.current_streak = 0 /\ e.ret.longest_streak = 3
    /\ \E id \in DOMAIN goals : goals[id].longest_streak = 3 /\ goals[id].current_streak = 0
====
